---- MODULE Spec2Model ----
(***************************************************************************)
(* castkeeper: incremental mirror of a remote podcast account into a       *)
(* relational store.  The module models                                    *)
(*   - the Set Reconciler (savePodcasts / saveBookmarks, src/src/db.ts),   *)
(*   - the Monotonic Timestamp Updater (updateEpisodePlayedAt),            *)
(*   - the three-stage queue pipeline of the backup worker                 *)
(*     (syncPodcasts / syncPodcast / syncHistory / processPodcastEpisodes) *)
(* Timestamps are integers 1..n (ISO-8601 strings of one format compare    *)
(* like the instants they denote); NULL is the SQL NULL of a nullable      *)
(* timestamp column.                                                       *)
(***************************************************************************)
EXTENDS Integers, Sequences, FiniteSets, TLC

VARIABLES
    podcasts,      \* table podcasts: uuid -> [title, deleted_at]
    bookmarks,     \* table bookmarks: bookmark_uuid -> [title, deleted_at]
    now,           \* the store's CURRENT_TIMESTAMP
    lastRemote,    \* per table: <<>> before the first pass, else <<ids of the latest pass>>
    trip,          \* per table and id: progress of the pattern present, absent, present
    lastTotal,     \* per table: the total returned by the latest pass
    repeated,      \* per table: when the latest pass repeated the remote ids of the pass
                   \* before it, the time of that pass, else NULL
    episodes,      \* table episodes: uuid -> row
    lastCall,      \* candidates of the latest updateEpisodePlayedAt call
    lastResult,    \* its result {updated, skipped}
    progress,      \* backup_progress row: [completed, total]
    queue,         \* BACKUP_QUEUE: message -> number of copies waiting
    units,         \* handlers in progress: slot -> local state
    runPodcasts,   \* podcasts of the run started by the latest stage 1
    classified,    \* podcasts whose classifier completed since the latest stage 1
    historySent,   \* number of sync-history messages enqueued so far
    historyRuns,   \* number of stage-3 executions so far
    triggers,      \* number of sync-podcasts messages enqueued so far
    redelivered,   \* number of redeliveries so far
    scan,          \* the getListenHistory call in progress, or its outcome
    remote,        \* the remote account every request of the runs observes, and the
                   \* tables as they were before the runs
    call,          \* the remote client operation in progress, or its outcome
    http,          \* the deployment's secrets, the latest HTTP request and its response
    batch,         \* the MessageBatch the queue consumer is handling
    sends          \* the sendBatch loop of stage 1 over the messages of a run

reconcileVars == <<podcasts, bookmarks, now, lastRemote, trip, lastTotal, repeated>>
playedAtVars  == <<lastCall, lastResult>>
pipelineVars  == <<progress, queue, units, runPodcasts, classified,
                   historySent, historyRuns, triggers, redelivered>>
pipelineVarsButUnits == <<progress, queue, runPodcasts, classified,
                          historySent, historyRuns, triggers, redelivered>>
edgeVars == <<http, batch, sends>>
vars == <<podcasts, bookmarks, now, lastRemote, trip, lastTotal, repeated, episodes,
          lastCall, lastResult, progress, queue, units, runPodcasts,
          classified, historySent, historyRuns, triggers, redelivered, scan, remote, call, http, batch, sends>>

(***************************************************************************)
(* Bounds of the model                                                     *)
(***************************************************************************)
MaxClock == 2          \* CURRENT_TIMESTAMP ranges over 1..MaxClock
MaxList == 2           \* longest remote list handed to a reconciliation pass
MaxTime == 2           \* played_at candidates range over 1..MaxTime
MaxCandidates == 2     \* longest candidate list of one updateEpisodePlayedAt call
MaxRedeliver == 1      \* redeliveries of sync-podcast messages in one behaviour
MaxYears == 3          \* years from FirstYear up to the current year
MaxChanges == 2        \* longest change list of one year's history response
MaxSync == 2           \* longest sync response of the classifier's own specification
MaxMessages == 210     \* longest remote podcast list of the sendBatch loop's own specification
MaxBatch == 3          \* most messages of one batch delivered to the consumer
MaxCache == 2          \* longest cache response of the classifier's own specification

NULL == 0

PodcastIds == {"p1", "p2"}
BookmarkIds == {"b1", "b2"}
Titles == {"t1", "t2"}
EpisodeIds == {"e1", "e2"}

\* sequences over S of length at most n
RECURSIVE SeqUpTo(_, _)
SeqUpTo(S, n) ==
    IF n = 0 THEN {<<>>}
    ELSE LET shorter == SeqUpTo(S, n - 1)
         IN  shorter \cup {Append(s, x) : s \in {t \in shorter : Len(t) = n - 1}, x \in S}

Range(s) == {s[i] : i \in DOMAIN s}

(***************************************************************************)
(* Set Reconciler: src/src/db.ts savePodcasts                              *)
(***************************************************************************)

\* One bound upsert statement, run at time t: INSERT OR REPLACE ...
\* updated_at = CURRENT_TIMESTAMP, deleted_at = NULL (src/src/db.ts 64-71).
\* The row is replaced: a column the statement does not list (episode_count)
\* gets its default back. created_at, not listed either, gets the default
\* the migrations give it; the migrations are not among the sources and the
\* column is no field of these rows.
UpsertRowKeepDeleted(table, uuid, title, t) ==
    [u \in DOMAIN table \cup {uuid} |->
        IF u = uuid
        THEN [title |-> title,
              updated_at |-> t,
              deleted_at |-> IF u \in DOMAIN table THEN table[u].deleted_at ELSE NULL,
              episode_count |-> NULL]
        ELSE table[u]]

UpsertRow(table, uuid, title, t) ==
    [u \in DOMAIN table \cup {uuid} |->
        IF u = uuid
        THEN [title |-> title, updated_at |-> t, deleted_at |-> NULL, episode_count |-> NULL]
        ELSE table[u]]

\* activeUuids: the Set of the uuids of the list.
ActiveUuids(list) == {list[i].uuid : i \in DOMAIN list}

\* db.batch(batch): the upserts of the list, in list order, so that of two
\* upserts of one uuid the later one stays.
UpsertBatch(table, list, t) ==
    LET last(u) == LET at == {i \in DOMAIN list : list[i].uuid = u}
                   IN  CHOOSE i \in at : \A j \in at : j <= i
    IN  [u \in DOMAIN table \cup ActiveUuids(list) |->
            IF u \in ActiveUuids(list)
            THEN UpsertRow(table, u, list[last(u)].title, t)[u]
            ELSE table[u]]

\* UPDATE ... SET deleted_at = CURRENT_TIMESTAMP WHERE uuid NOT IN (...) AND deleted_at IS NULL
MarkMissingRestamp(table, active, t) ==
    [u \in DOMAIN table |->
        IF u \notin active THEN [table[u] EXCEPT !.deleted_at = t] ELSE table[u]]

MarkMissingSkipped(table, active, t) == table

MarkMissingRemoves(table, active, t) == [u \in DOMAIN table \cap active |-> table[u]]

MarkMissing(table, active, t) ==
    [u \in DOMAIN table |->
        IF u \notin active /\ table[u].deleted_at = NULL
        THEN [table[u] EXCEPT !.deleted_at = t]
        ELSE table[u]]

\* UPDATE ... SET deleted_at = CURRENT_TIMESTAMP WHERE deleted_at IS NULL
MarkAllSkipped(table, t) == table

MarkAll(table, t) ==
    [u \in DOMAIN table |->
        IF table[u].deleted_at = NULL
        THEN [table[u] EXCEPT !.deleted_at = t]
        ELSE table[u]]

\* savePodcasts awaits three statements, one after another: db.batch(batch)
\* when the list is not empty, the mark UPDATE, the SELECT COUNT(*). Each is
\* a turn of its own on the database.
FirstSaveStage(list) == IF Len(list) > 0 THEN "batch" ELSE "update"

NextSaveStage(stage) ==
    IF stage = "batch" THEN "update" ELSE IF stage = "update" THEN "count" ELSE "done"

\* The table after the statement of that stage, run at time t.
SaveStatement(table, list, stage, t) ==
    IF stage = "batch" THEN UpsertBatch(table, list, t)
    ELSE IF stage = "update"
         THEN IF Cardinality(ActiveUuids(list)) > 0
              THEN MarkMissing(table, ActiveUuids(list), t)
              ELSE MarkAll(table, t)
         ELSE table

\* The table after savePodcasts(db, {podcasts: list}) run at time t with no
\* other statement on the table between its own.
savePodcasts(table, list, t) ==
    LET upserted == IF Len(list) > 0 THEN SaveStatement(table, list, "batch", t) ELSE table
    IN  SaveStatement(upserted, list, "update", t)

\* SELECT COUNT(*) as total
CountRows(table) == Cardinality(DOMAIN table)

\* saveBookmarks, as the specification words it: the upsert of every remote
\* entity refreshes its fields and clears deleted_at, then the mark sets
\* deleted_at of the stored entities absent from the remote set to the time
\* of the pass. The specification names no updated_at of a bookmark: the
\* field stays NULL in the rows of the bookmarks table.
BookmarkStatement(table, list, stage, t) ==
    IF stage = "batch" THEN UpsertBatch(table, list, NULL)
    ELSE SaveStatement(table, list, stage, t)

saveBookmarks(table, list, t) ==
    LET upserted == IF Len(list) > 0 THEN BookmarkStatement(table, list, "batch", t) ELSE table
    IN  BookmarkStatement(upserted, list, "update", t)

EmptyTable ==
    [u \in {} |-> [title |-> "t1", updated_at |-> NULL, deleted_at |-> NULL, episode_count |-> NULL]]

\* remote podcasts: p1 under either title, p2
RemotePodcasts == {r \in [uuid : PodcastIds, title : Titles] : r.uuid = "p2" => r.title = "t1"}

PodcastLists == SeqUpTo(RemotePodcasts, MaxList)
BookmarkLists == SeqUpTo([uuid : BookmarkIds, title : {"t1"}], MaxList)

\* Monitor of the pattern "present, then absent, then present" in the remote
\* sets of consecutive passes: 0 none, 1 present, 2 then absent, 3 then present.
TripStep(s, present) ==
    IF present THEN (IF s = 2 \/ s = 3 THEN 3 ELSE 1)
    ELSE (IF s = 1 \/ s = 2 \/ s = 3 THEN 2 ELSE 0)


(***************************************************************************)
(* The tables as the migrations leave them, and the store's clock          *)
(***************************************************************************)
ReconcileInit ==
    /\ podcasts = EmptyTable
    /\ bookmarks = EmptyTable
    /\ now = 1
    /\ lastRemote = [podcasts |-> <<>>, bookmarks |-> <<>>]
    /\ trip = [podcasts |-> [u \in PodcastIds |-> 0], bookmarks |-> [u \in BookmarkIds |-> 0]]
    /\ lastTotal = [podcasts |-> 0, bookmarks |-> 0]
    /\ repeated = [podcasts |-> NULL, bookmarks |-> NULL]

\* the store's clock advances
Tick ==
    /\ now < MaxClock
    /\ now' = now + 1
    /\ UNCHANGED <<edgeVars, call, remote, scan, podcasts, bookmarks, lastRemote, trip, lastTotal, repeated, episodes,
                   playedAtVars, pipelineVars>>


(***************************************************************************)
(* Monotonic Timestamp Updater: updateEpisodePlayedAt(db, candidates)      *)
(***************************************************************************)

\* The single-row conditional update of one candidate:
\* UPDATE episodes SET played_at = c WHERE uuid = u AND (played_at IS NULL OR played_at < c)
PlayedAtAppliesAlways(table, c) == c.uuid \in DOMAIN table

PlayedAtAppliesOrEqual(table, c) ==
    /\ c.uuid \in DOMAIN table
    /\ (table[c.uuid].played_at = NULL \/ table[c.uuid].played_at <= c.played_at)

PlayedAtAppliesUnstored(table, c) ==
    \/ c.uuid \notin DOMAIN table
    \/ table[c.uuid].played_at = NULL
    \/ table[c.uuid].played_at < c.played_at

PlayedAtApplies(table, c) ==
    /\ c.uuid \in DOMAIN table
    /\ (table[c.uuid].played_at = NULL \/ table[c.uuid].played_at < c.played_at)

\* The candidates in order; the result counts each candidate as updated or skipped.
RECURSIVE ApplyPlayedAt(_, _, _)
ApplyPlayedAt(table, candidates, result) ==
    IF candidates = <<>> THEN [table |-> table, result |-> result]
    ELSE LET c == Head(candidates)
         IN  IF PlayedAtApplies(table, c)
             THEN ApplyPlayedAt([u \in DOMAIN table |->
                                    IF u = c.uuid
                                    THEN [table[u] EXCEPT !.played_at = c.played_at]
                                    ELSE table[u]],
                                Tail(candidates),
                                [result EXCEPT !.updated = @ + 1])
             ELSE ApplyPlayedAt(table, Tail(candidates),
                                [result EXCEPT !.skipped = @ + 1])

\* statements: the number of store statements the call issues, one per candidate
updateEpisodePlayedAtUpdatedOnly(table, candidates) ==
    LET r == ApplyPlayedAt(table, candidates, [updated |-> 0, skipped |-> 0])
    IN  [table |-> r.table, result |-> [r.result EXCEPT !.skipped = 0],
         statements |-> Len(candidates)]

updateEpisodePlayedAt(table, candidates) ==
    IF Len(candidates) = 0
    THEN [table |-> table, result |-> [updated |-> 0, skipped |-> 0], statements |-> 0]
    ELSE LET r == ApplyPlayedAt(table, candidates, [updated |-> 0, skipped |-> 0])
         IN  [table |-> r.table, result |-> r.result, statements |-> Len(candidates)]


(***************************************************************************)
(* Episode store primitives used by stage 2                                *)
(***************************************************************************)
NoEpisodes == [u \in {} |-> [podcast_uuid |-> "p1", title |-> "t1", playing_status |-> 0,
                             played_up_to |-> 0, starred |-> 0, is_deleted |-> 0,
                             played_at |-> NULL]]

\* getExistingEpisodeUuids(db, uuids): the uuids of the list that are stored.
getExistingEpisodeUuids(table, uuids) ==
    IF Len(uuids) = 0 THEN {} ELSE Range(uuids) \cap DOMAIN table

\* updateEpisodeSyncData(db, updates): sets the four sync fields of each stored uuid.
RECURSIVE updateEpisodeSyncDataAllRows(_, _)
updateEpisodeSyncDataAllRows(table, updates) ==
    IF updates = <<>> THEN table
    ELSE LET r == Head(updates)
             t == IF r.uuid \in DOMAIN table
                  THEN [u \in DOMAIN table |->
                            [table[u] EXCEPT !.playing_status = r.playing_status,
                                             !.played_up_to = r.played_up_to,
                                             !.starred = r.starred,
                                             !.is_deleted = r.is_deleted]]
                  ELSE table
         IN  updateEpisodeSyncDataAllRows(t, Tail(updates))

RECURSIVE updateEpisodeSyncDataResetsPlayedAt(_, _)
updateEpisodeSyncDataResetsPlayedAt(table, updates) ==
    IF updates = <<>> THEN table
    ELSE LET r == Head(updates)
             t == IF r.uuid \in DOMAIN table
                  THEN [table EXCEPT ![r.uuid] =
                            [@ EXCEPT !.playing_status = r.playing_status,
                                      !.played_up_to = r.played_up_to,
                                      !.starred = r.starred,
                                      !.is_deleted = r.is_deleted,
                                      !.played_at = NULL]]
                  ELSE table
         IN  updateEpisodeSyncDataResetsPlayedAt(t, Tail(updates))

RECURSIVE updateEpisodeSyncDataClearsTitle(_, _)
updateEpisodeSyncDataClearsTitle(table, updates) ==
    IF updates = <<>> THEN table
    ELSE LET r == Head(updates)
             t == IF r.uuid \in DOMAIN table
                  THEN [table EXCEPT ![r.uuid] =
                            [@ EXCEPT !.title = "",
                                      !.playing_status = r.playing_status,
                                      !.played_up_to = r.played_up_to,
                                      !.starred = r.starred,
                                      !.is_deleted = r.is_deleted]]
                  ELSE table
         IN  updateEpisodeSyncDataClearsTitle(t, Tail(updates))

RECURSIVE updateEpisodeSyncData(_, _)
updateEpisodeSyncData(table, updates) ==
    IF updates = <<>> THEN table
    ELSE LET r == Head(updates)
             t == IF r.uuid \in DOMAIN table
                  THEN [table EXCEPT ![r.uuid] =
                            [@ EXCEPT !.playing_status = r.playing_status,
                                      !.played_up_to = r.played_up_to,
                                      !.starred = r.starred,
                                      !.is_deleted = r.is_deleted]]
                  ELSE table
         IN  updateEpisodeSyncData(t, Tail(updates))

\* What the upsert of insertNewEpisodes does to a stored row of the same
\* uuid is not fixed by the sources: the insert record of
\* src/unnamed/part_001 143-163 has no played_at, and
\* src/test/db.test.ts 459-466 reads the count and the title only. A
\* replacing upsert (INSERT OR REPLACE, as saveHistory and savePodcasts of
\* src/src/db.ts) gives the row the column's default, NULL; an updating
\* upsert (ON CONFLICT DO UPDATE of the record's columns) keeps the row's
\* played_at. Every insert is either.
UpsertKinds == {"replace", "update"}

\* One upsert of insertNewEpisodes: a new row starts with played_at NULL; on a
\* duplicate uuid the row takes the record's fields.
InsertEpisode(table, e, upsert) ==
    [u \in DOMAIN table \cup {e.uuid} |->
        IF u = e.uuid
        THEN [podcast_uuid |-> e.podcast_uuid, title |-> e.title,
              playing_status |-> e.playing_status, played_up_to |-> e.played_up_to,
              starred |-> e.starred, is_deleted |-> e.is_deleted,
              played_at |-> IF upsert = "update" /\ u \in DOMAIN table
                            THEN table[u].played_at ELSE NULL]
        ELSE table[u]]

RECURSIVE insertNewEpisodes(_, _, _)
insertNewEpisodes(table, list, upsert) ==
    IF list = <<>> THEN table
    ELSE insertNewEpisodes(InsertEpisode(table, Head(list), upsert), Tail(list), upsert)

\* One row of saveHistory's INSERT OR REPLACE INTO episodes: the row of that
\* uuid is replaced whole; played_at is not in the column list, so the new
\* row holds it NULL.
ReplaceHistoryEpisode(table, e) ==
    [u \in DOMAIN table \cup {e.uuid} |->
        IF u = e.uuid
        THEN [podcast_uuid |-> e.podcastUuid, title |-> e.title,
              playing_status |-> e.playingStatus, played_up_to |-> e.playedUpTo,
              starred |-> IF e.starred THEN 1 ELSE 0,
              is_deleted |-> IF e.isDeleted THEN 1 ELSE 0, played_at |-> NULL]
        ELSE table[u]]

\* db.batch(batch): one statement per entry of history.episodes, in order
RECURSIVE ReplaceHistoryEpisodes(_, _)
ReplaceHistoryEpisodes(table, list) ==
    IF list = <<>> THEN table
    ELSE ReplaceHistoryEpisodes(ReplaceHistoryEpisode(table, Head(list)), Tail(list))

\* saveHistory(db, history) with no other statement on the table between its
\* two: the table it leaves and the total it returns
saveHistory(table, history) ==
    LET replaced == ReplaceHistoryEpisodes(table, history.episodes)
    IN  [table |-> replaced, total |-> Cardinality(DOMAIN replaced)]

\* updatePodcastEpisodeCount(db, podcastUuid, count)
updatePodcastEpisodeCountAdds(table, uuid, count) ==
    IF uuid \in DOMAIN table THEN [table EXCEPT ![uuid].episode_count = @ + count] ELSE table

updatePodcastEpisodeCount(table, uuid, count) ==
    IF uuid \in DOMAIN table THEN [table EXCEPT ![uuid].episode_count = count] ELSE table

(***************************************************************************)
(* Progress counter                                                        *)
(***************************************************************************)
resetBackupProgress(total) == [completed |-> 0, total |-> total]

\* one atomic UPDATE ... SET completed = completed + 1 RETURNING completed, total
incrementBackupProgressTwice(p) == [p EXCEPT !.completed = @ + 1 + 1]

incrementBackupProgress(p) == [p EXCEPT !.completed = @ + 1]

\* progress.completed >= progress.total
AllPodcastsSyncedEarly(p) == p.completed >= p.total - 1

AllPodcastsSyncedStrict(p) == p.completed > p.total

AllPodcastsSynced(p) == p.completed >= p.total


(***************************************************************************)
(* Episode Delta Classifier: processPodcastEpisodes                        *)
(***************************************************************************)
Bit(b) == IF b THEN 1 ELSE 0

IsInteractedAlways(ep) == TRUE

IsInteracted(ep) == ep.playingStatus > 0 \/ ep.playedUpTo > 0

\* syncData.episodes.filter(...)
Interacted(syncEpisodes) == SelectSeq(syncEpisodes, IsInteracted)

Uuids(items) == [i \in DOMAIN items |-> items[i].uuid]

\* the update records of the interacted items whose uuid is stored
RECURSIVE ToUpdateAll(_, _)
ToUpdateAll(interacted, existingUuids) ==
    IF interacted = <<>> THEN <<>>
    ELSE LET ep == Head(interacted)
         IN  <<[uuid |-> ep.uuid, playing_status |-> ep.playingStatus,
                played_up_to |-> ep.playedUpTo, starred |-> Bit(ep.starred),
                is_deleted |-> Bit(ep.isDeleted)]>> \o ToUpdateAll(Tail(interacted), existingUuids)

RECURSIVE ToUpdate(_, _)
ToUpdate(interacted, existingUuids) ==
    IF interacted = <<>> THEN <<>>
    ELSE LET ep == Head(interacted)
             rest == ToUpdate(Tail(interacted), existingUuids)
         IN  IF ep.uuid \in existingUuids
             THEN <<[uuid |-> ep.uuid, playing_status |-> ep.playingStatus,
                     played_up_to |-> ep.playedUpTo, starred |-> Bit(ep.starred),
                     is_deleted |-> Bit(ep.isDeleted)]>> \o rest
             ELSE rest

\* the interacted items whose uuid is not stored
RECURSIVE NewSyncItems(_, _)
NewSyncItems(interacted, existingUuids) ==
    IF interacted = <<>> THEN <<>>
    ELSE LET ep == Head(interacted)
             rest == NewSyncItems(Tail(interacted), existingUuids)
         IN  IF ep.uuid \in existingUuids THEN rest ELSE <<ep>> \o rest

\* cacheMap: uuid -> the last cache episode of that uuid
CacheHas(cacheEpisodes, uuid) == \E i \in DOMAIN cacheEpisodes : cacheEpisodes[i].uuid = uuid

CacheGet(cacheEpisodes, uuid) ==
    LET last == CHOOSE i \in DOMAIN cacheEpisodes :
                    /\ cacheEpisodes[i].uuid = uuid
                    /\ \A j \in DOMAIN cacheEpisodes : cacheEpisodes[j].uuid = uuid => j <= i
    IN  cacheEpisodes[last]

\* the insert records of the new items the cache has metadata for
RECURSIVE ToInsertStopsAtMissing(_, _, _)
ToInsertStopsAtMissing(newSyncItems, cacheEpisodes, podcastUuid) ==
    IF newSyncItems = <<>> THEN <<>>
    ELSE LET item == Head(newSyncItems)
         IN  IF ~CacheHas(cacheEpisodes, item.uuid) THEN <<>>
             ELSE <<[uuid |-> item.uuid,
                     title |-> CacheGet(cacheEpisodes, item.uuid).title,
                     podcast_uuid |-> podcastUuid,
                     playing_status |-> item.playingStatus,
                     played_up_to |-> item.playedUpTo,
                     is_deleted |-> Bit(item.isDeleted),
                     starred |-> Bit(item.starred)]>>
                  \o ToInsertStopsAtMissing(Tail(newSyncItems), cacheEpisodes, podcastUuid)

RECURSIVE ToInsert(_, _, _)
ToInsert(newSyncItems, cacheEpisodes, podcastUuid) ==
    IF newSyncItems = <<>> THEN <<>>
    ELSE LET item == Head(newSyncItems)
             rest == ToInsert(Tail(newSyncItems), cacheEpisodes, podcastUuid)
         IN  IF ~CacheHas(cacheEpisodes, item.uuid) THEN rest
             ELSE <<[uuid |-> item.uuid,
                     title |-> CacheGet(cacheEpisodes, item.uuid).title,
                     podcast_uuid |-> podcastUuid,
                     playing_status |-> item.playingStatus,
                     played_up_to |-> item.playedUpTo,
                     is_deleted |-> Bit(item.isDeleted),
                     starred |-> Bit(item.starred)]>> \o rest

(***************************************************************************)
(* Remote data the pipeline may observe                                    *)
(***************************************************************************)
EpisodesOfPodcast(p) == IF p = "p1" THEN {"e1"} ELSE {"e2"}

SyncStates ==
    { [playingStatus |-> 0, playedUpTo |-> 0, starred |-> FALSE, isDeleted |-> FALSE],
      [playingStatus |-> 3, playedUpTo |-> 2, starred |-> TRUE, isDeleted |-> TRUE] }

SyncItem(u, st) == [uuid |-> u, playingStatus |-> st.playingStatus, playedUpTo |-> st.playedUpTo,
                    starred |-> st.starred, isDeleted |-> st.isDeleted]

\* responses of getEpisodeSyncData(token, p).episodes
SyncResponses(p) ==
    {<<>>} \cup {<<SyncItem(u, st)>> : u \in EpisodesOfPodcast(p), st \in SyncStates}

\* responses of getPodcastEpisodeMetadata(p).podcast.episodes
CacheResponses(p) ==
    {<<>>} \cup {<<[uuid |-> u, title |-> "t1"]>> : u \in EpisodesOfPodcast(p)}

HasDistinctUuids(list) == \A i, j \in DOMAIN list : list[i].uuid = list[j].uuid => i = j

\* responses of getPodcastList(token).podcasts and getBookmarks(token).bookmarks
RemotePodcastLists ==
    {l \in PodcastLists : HasDistinctUuids(l) /\ \A i \in DOMAIN l : l[i].title = "t1"}

RemoteBookmarkLists == {l \in BookmarkLists : Len(l) <= 1 /\ \A i \in DOMAIN l : l[i].uuid = "b1"}

\* results of getListenHistory(token): one entry per episode uuid
HistoryEntries == [uuid : EpisodeIds, played_at : 1..MaxTime]

Histories == {h \in SeqUpTo(HistoryEntries, MaxCandidates) : HasDistinctUuids(h)}


(***************************************************************************)
(* History Merger: src/src/history.ts getListenHistory                     *)
(***************************************************************************)
FirstYear == 2010

\* new Date().getFullYear()
CurrentYear == FirstYear + MaxYears - 1

OkStatus == 200
ErrorStatus == 500

\* change records of the remote; modifiedAt is the epoch value the string holds
ChangeActions == {1, 2}
HistoryYearChanges == [action : ChangeActions, episode : EpisodeIds, modifiedAt : 1..MaxTime]

\* HTTP responses to the count query; count is optional: <<>> or <<n>>
CountResponses ==
    {[ok |-> TRUE, status |-> OkStatus, count |-> c] : c \in {<<>>, <<0>>, <<2>>}}
    \cup {[ok |-> FALSE, status |-> ErrorStatus, count |-> <<>>]}

\* HTTP responses to the full query; history.changes is optional: <<>> or <<list>>
FullResponses ==
    {[ok |-> TRUE, status |-> OkStatus, changes |-> c] :
        c \in {<<>>} \cup {<<l>> : l \in SeqUpTo(HistoryYearChanges, MaxChanges)}}
    \cup {[ok |-> FALSE, status |-> ErrorStatus, changes |-> <<>>]}

\* countRes.count ?? 0
CountTotalDefaultsOne(res) == IF res.count = <<>> THEN 1 ELSE res.count[1]

CountTotal(res) == IF res.count = <<>> THEN 0 ELSE res.count[1]

\* if (total === 0) break
StopsScanNever(total) == FALSE

StopsScan(total) == total = 0

\* fullRes.history?.changes ?? []
ChangesOf(res) == IF res.changes = <<>> THEN <<>> ELSE res.changes[1]

\* changes.filter(c => c.action === 1)
PlayActionsUnfiltered(changes) == changes

RECURSIVE PlayActions(_)
PlayActions(changes) ==
    IF changes = <<>> THEN <<>>
    ELSE IF Head(changes).action = 1
         THEN <<Head(changes)>> \o PlayActions(Tail(changes))
         ELSE PlayActions(Tail(changes))

\* seen: the Map of episode to modifiedAt, in insertion order
SeenHas(seen, episode) == \E i \in DOMAIN seen : seen[i].uuid = episode

SeenGet(seen, episode) ==
    LET i == CHOOSE j \in DOMAIN seen : seen[j].uuid = episode IN seen[i].modifiedAt

\* seen.set on a key the Map holds keeps the key's place and replaces the value
SeenSet(seen, episode, modifiedAt) ==
    IF SeenHas(seen, episode)
    THEN [i \in DOMAIN seen |->
            IF seen[i].uuid = episode THEN [seen[i] EXCEPT !.modifiedAt = modifiedAt]
            ELSE seen[i]]
    ELSE Append(seen, [uuid |-> episode, modifiedAt |-> modifiedAt])

\* the loop over playActions, lines 57-65
RECURSIVE MergePlaysOverwrite(_, _)
MergePlaysOverwrite(seen, playActions) ==
    IF playActions = <<>> THEN seen
    ELSE MergePlaysOverwrite(
            SeenSet(seen, Head(playActions).episode, Head(playActions).modifiedAt),
            Tail(playActions))

RECURSIVE MergePlaysMax(_, _)
MergePlaysMax(seen, playActions) ==
    IF playActions = <<>> THEN seen
    ELSE LET c == Head(playActions)
         IN  MergePlaysMax(
                IF SeenHas(seen, c.episode) /\ SeenGet(seen, c.episode) >= c.modifiedAt
                THEN seen ELSE SeenSet(seen, c.episode, c.modifiedAt),
                Tail(playActions))

RECURSIVE MergePlays(_, _)
MergePlays(seen, playActions) ==
    IF playActions = <<>> THEN seen
    ELSE LET c == Head(playActions)
         IN  MergePlays(IF SeenHas(seen, c.episode) THEN seen
                        ELSE SeenSet(seen, c.episode, c.modifiedAt),
                        Tail(playActions))

\* new Date(Number(modifiedAt)).toISOString(): the timestamp of that epoch value
ToISOString(modifiedAt) == [iso |-> modifiedAt]

\* the entries built from seen, lines 70-76
Entries(seen) ==
    [i \in DOMAIN seen |-> [uuid |-> seen[i].uuid, played_at |-> ToISOString(seen[i].modifiedAt)]]

\* the for statement, line 40, after the body has run for a year
AfterYearStopsOnMissing(year, res) ==
    IF year > FirstYear /\ res.changes # <<>> THEN "count" ELSE "done"

AfterYearPastFloor(year, res) == IF year >= FirstYear THEN "count" ELSE "done"

AfterYear(year, res) == IF year > FirstYear THEN "count" ELSE "done"

\* no call of getListenHistory yet
NoScan == [pc |-> "idle", year |-> CurrentYear, seen |-> <<>>, requests |-> <<>>,
           response |-> <<>>, zeroAt |-> <<>>, played |-> {}, entries |-> <<>>,
           error |-> <<>>, applied |-> FALSE]

\* fetchHistoryYear threw: the error names the year and the status
FailedReturnsPartial(s, year, res) ==
    [s EXCEPT !.pc = "done", !.response = <<res>>, !.entries = Entries(s.seen)]

Failed(s, year, res) ==
    [s EXCEPT !.pc = "failed", !.response = <<res>>,
              !.error = <<[year |-> year, status |-> res.status]>>]

(***************************************************************************)
(* The queue pipeline: src/src/index.tsx (triggers, consumer) and the      *)
(* backup worker (syncPodcasts, syncPodcast, syncHistory)                  *)
(***************************************************************************)
Workers == {"w1", "w2"}

\* the statement each of the two reconciliations of a handler is at
NoSave == [podcasts |-> "none", bookmarks |-> "none"]

\* list, marks: the remote lists of a reconciliation; save: the statement each
\* reconciliation is at; hit: the unit's insert batch met a stored row whose
\* played_at was set; read: the unit has called getExistingEpisodeUuids;
\* sync, cache, count: the responses the unit fetched (syncData.episodes,
\* cacheData.podcast.episodes, cacheData.episode_count); oks: res.ok of the
\* two responses, where the fetches can fail; threw: the call that rejected
Idle == [pc |-> "idle", podcast |-> "", list |-> <<>>, marks |-> <<>>, save |-> NoSave,
         toUpdate |-> <<>>, toInsert |-> <<>>, hit |-> FALSE, read |-> FALSE,
         sync |-> <<>>, cache |-> <<>>, count |-> 0, oks |-> <<>>, threw |-> ""]

\* everything but the episodes table, as the migrations leave it
(***************************************************************************)
(* Remote client: src/src/api.ts, the operations of src/src/types.ts      *)
(* 113-189 and fetchHistoryYear of src/src/history.ts                      *)
(***************************************************************************)
ForbiddenStatus == 403

\* the promise rejects with an Error of this message
Threw(text, resource, status) ==
    [threw |-> TRUE, error |-> <<[text |-> text, resource |-> resource, status |-> status]>>,
     value |-> <<>>]

\* the promise resolves with res.json()
Returned(body) == [threw |-> FALSE, error |-> <<>>, value |-> <<body>>]

getPodcastList(res) ==
    IF ~res.ok THEN Threw("Failed to fetch podcast list", <<>>, <<>>) ELSE Returned(res.body)

getBookmarksEmptyOnError(res) == IF ~res.ok THEN Returned(<<>>) ELSE Returned(res.body)

getBookmarks(res) ==
    IF ~res.ok THEN Threw("Failed to fetch bookmarks", <<>>, <<>>) ELSE Returned(res.body)

getEpisodeSyncDataEmptyOnError(podcastUuid, res) ==
    IF ~res.ok THEN Returned(<<>>) ELSE Returned(res.body)

getEpisodeSyncData(podcastUuid, res) ==
    IF ~res.ok
    THEN Threw("Failed to fetch episode sync data for", <<podcastUuid>>, <<>>)
    ELSE Returned(res.body)

getPodcastEpisodeMetadata(podcastUuid, res) ==
    IF ~res.ok
    THEN Threw("Failed to fetch podcast metadata for", <<podcastUuid>>, <<>>)
    ELSE Returned(res.body)

fetchHistoryYear(year, res) ==
    IF ~res.ok THEN Threw("Failed to fetch history for", <<year>>, <<res.status>>)
    ELSE Returned(res.body)

ClientOps == {"getPodcastList", "getBookmarks", "getEpisodeSyncData",
              "getPodcastEpisodeMetadata", "fetchHistoryYear"}

\* the podcast or the year an operation is called for
ClientResources(op) ==
    IF op \in {"getEpisodeSyncData", "getPodcastEpisodeMetadata"} THEN {<<p>> : p \in PodcastIds}
    ELSE IF op = "fetchHistoryYear" THEN {<<y>> : y \in FirstYear..CurrentYear}
    ELSE {<<>>}

\* the bodies of the success responses to an operation
ClientBodies(op, resource) ==
    IF op = "getPodcastList" THEN RemotePodcastLists
    ELSE IF op = "getBookmarks" THEN RemoteBookmarkLists
    ELSE IF op = "getEpisodeSyncData" THEN SyncResponses(resource[1])
    ELSE IF op = "getPodcastEpisodeMetadata" THEN CacheResponses(resource[1])
    ELSE {<<>>} \cup {<<l>> : l \in SeqUpTo(HistoryYearChanges, MaxChanges)}

ClientResponses(op, resource) ==
    {[ok |-> TRUE, status |-> OkStatus, body |-> b] : b \in ClientBodies(op, resource)}
    \cup {[ok |-> FALSE, status |-> st, body |-> <<>>] : st \in {ForbiddenStatus, ErrorStatus}}

ClientOutcome(op, resource, res) ==
    IF op = "getPodcastList" THEN getPodcastList(res)
    ELSE IF op = "getBookmarks" THEN getBookmarks(res)
    ELSE IF op = "getEpisodeSyncData" THEN getEpisodeSyncData(resource[1], res)
    ELSE IF op = "getPodcastEpisodeMetadata" THEN getPodcastEpisodeMetadata(resource[1], res)
    ELSE fetchHistoryYear(resource[1], res)

\* no client operation called yet
NoCall == [pc |-> "idle", op |-> "", resource |-> <<>>, fetches |-> 0, response |-> <<>>,
           outcome |-> <<>>]

\* no HTTP request received yet; the secrets are not set
NoHttp == [env |-> [PASS |-> <<>>, EMAIL |-> <<>>], request |-> <<>>, response |-> <<>>,
           reads |-> FALSE, sent |-> FALSE]

\* no batch delivered to the consumer. next: the index of the message the
\* loop of queue() is at; acked: the indices of the messages acknowledged;
\* threw: handleQueueMessage threw and queue() rejected
NoBatch == [messages |-> <<>>, next |-> 0, acked |-> {}, threw |-> FALSE]

\* msg.ack() in a finally block: the message is acknowledged whether the
\* handler returned or threw
AckedAlways(acked, index, threw) == acked \cup {index}

\* src/src/index.tsx 158: msg.ack() is reached when handleQueueMessage returned
AckedAfter(acked, index, threw) == IF threw THEN acked ELSE acked \cup {index}

\* src/src/index.tsx 157-158: the handler returned, the loop of queue()
\* acknowledges its message and goes on; a handler started for a message
\* outside a batch leaves the batch alone
HandlerReturned(b) ==
    IF b.next \in DOMAIN b.messages
    THEN [b EXCEPT !.acked = AckedAfter(@, b.next, FALSE), !.next = @ + 1]
    ELSE b

\* no syncPodcasts call started yet. responses: the responses to login and to
\* the two fetches; save: the statement each reconciliation is at; saved: the
\* reconciliations that have returned; log: the calls made so far; before:
\* the store and the queue when the call started
NoSends == [pc |-> "idle", token |-> <<>>, responses |-> <<>>, podcastList |-> <<>>,
            bookmarkList |-> <<>>, save |-> NoSave, saved |-> {}, total |-> <<>>,
            messages |-> <<>>,
            i |-> 0, batches |-> <<>>, log |-> <<>>, before |-> <<>>, threw |-> ""]

\* no remote account is fixed: every request draws its response afresh
NoRemote == [podcasts |-> <<>>, bookmarks |-> <<>>,
             sync |-> [p \in PodcastIds |-> <<>>], cache |-> [p \in PodcastIds |-> <<>>],
             episode_count |-> [p \in PodcastIds |-> 0],
             history |-> <<>>,
             before |-> [podcasts |-> EmptyTable, bookmarks |-> EmptyTable,
                         episodes |-> NoEpisodes]]

InitButEpisodes ==
    /\ ReconcileInit
    /\ lastCall = <<>>
    /\ lastResult = [updated |-> 0, skipped |-> 0]
    /\ progress = [completed |-> 0, total |-> 0]
    /\ queue = [podcasts |-> 0, podcast |-> [p \in PodcastIds |-> 0], history |-> 0]
    /\ units = [w \in Workers |-> Idle]
    /\ runPodcasts = {}
    /\ classified = {}
    /\ historySent = 0
    /\ historyRuns = 0
    /\ triggers = 0
    /\ redelivered = 0
    /\ scan = NoScan
    /\ call = NoCall
    /\ http = NoHttp
    /\ batch = NoBatch
    /\ sends = NoSends
    /\ remote = NoRemote

Init == InitButEpisodes /\ episodes = NoEpisodes

\* episodes an earlier backup has stored: none, or e1 listened to at time 1
StoredBefore ==
    { NoEpisodes,
      [InsertEpisode(NoEpisodes, [uuid |-> "e1", title |-> "t1", podcast_uuid |-> "p1",
                                  playing_status |-> 2, played_up_to |-> 1,
                                  is_deleted |-> 0, starred |-> 0], "replace")
          EXCEPT !["e1"].played_at = 1] }

InitStored == InitButEpisodes /\ episodes \in StoredBefore

\* the consumers are interchangeable: a message goes to the first idle one
FirstIdle(w) == w = "w1" \/ units["w1"].pc # "idle"

\* GET /backup or the scheduled handler: BACKUP_QUEUE.send({type: "sync-podcasts"});
\* the behaviours below follow the one run this message starts
TriggerWhen(sent) ==
    /\ triggers \in sent
    /\ triggers' = triggers + 1
    /\ queue' = [queue EXCEPT !.podcasts = @ + 1]
    /\ UNCHANGED <<edgeVars, call, remote, scan, reconcileVars, episodes, playedAtVars, progress, units, runPodcasts,
                   classified, historySent, historyRuns, redelivered>>

Trigger == TriggerWhen({0})

\* the list a reconciliation of a handler works on
SaveList(unit, which) == IF which = "podcasts" THEN unit.list ELSE unit.marks

\* every reconciliation of a handler has returned
SaveDone(save) == \A which \in DOMAIN save : save[which] \in {"none", "done"}

\* syncPodcasts, lines 20-24: the delivery, login and both fetches; lines
\* 25-28 call savePodcasts and saveBookmarks, which run up to their first await
SyncPodcastsStartFrom(w, lists, marksLists) ==
    /\ units[w].pc = "idle"
    /\ FirstIdle(w)
    /\ queue.podcasts > 0
    /\ \E list \in lists, marks \in marksLists :
          units' = [units EXCEPT ![w] =
                       [Idle EXCEPT !.pc = "save", !.list = list, !.marks = marks,
                                    !.save = [podcasts |-> FirstSaveStage(list),
                                              bookmarks |-> FirstSaveStage(marks)]]]
    /\ queue' = [queue EXCEPT !.podcasts = @ - 1]
    /\ UNCHANGED <<edgeVars, call, remote, scan, reconcileVars, episodes, playedAtVars, progress,
                   runPodcasts, classified, historySent, historyRuns, triggers, redelivered>>

SyncPodcastsStart(w) == SyncPodcastsStartFrom(w, RemotePodcastLists, RemoteBookmarkLists)

\* syncPodcasts, lines 25-28: the database runs the statement one of the two
\* reconciliations awaits; Promise.all resolves when both have returned
SyncPodcastsReconcile(w) ==
    /\ units[w].pc = "save"
    /\ \E which \in DOMAIN units[w].save :
          LET stage == units[w].save[which]
              save == [units[w].save EXCEPT ![which] = NextSaveStage(stage)]
          IN  /\ stage \notin {"none", "done"}
              /\ podcasts' = IF which = "podcasts"
                             THEN SaveStatement(podcasts, units[w].list, stage, now)
                             ELSE podcasts
              /\ bookmarks' = IF which = "bookmarks"
                              THEN BookmarkStatement(bookmarks, units[w].marks, stage, now)
                              ELSE bookmarks
              /\ units' = [units EXCEPT ![w].save = save,
                                        ![w].pc = IF SaveDone(save) THEN "reset" ELSE "save"]
    /\ UNCHANGED <<edgeVars, call, remote, scan, now, lastRemote, trip, lastTotal, repeated,
                   episodes, playedAtVars, pipelineVarsButUnits>>

\* syncPodcasts, lines 30-31: resetBackupProgress(db, podcasts.length)
SyncPodcastsReset(w) ==
    /\ units[w].pc = "reset"
    /\ progress' = resetBackupProgress(Len(units[w].list))
    /\ runPodcasts' = ActiveUuids(units[w].list)
    /\ classified' = {}
    /\ units' = [units EXCEPT ![w].pc = "enqueue"]
    /\ UNCHANGED <<edgeVars, call, remote, scan, reconcileVars, episodes, playedAtVars, queue, historySent,
                   historyRuns, triggers, redelivered>>

\* syncPodcasts, lines 33-48: one sync-podcast message per podcast of the
\* list, in one sendBatch for a list of at most 100 podcasts; the handler
\* returns
SyncPodcastsEnqueue(w) ==
    /\ units[w].pc = "enqueue"
    /\ queue' = [queue EXCEPT !.podcast = [p \in PodcastIds |->
                    @[p] + Cardinality({i \in DOMAIN units[w].list : units[w].list[i].uuid = p})]]
    /\ units' = [units EXCEPT ![w] = Idle]
    /\ batch' = HandlerReturned(batch)
    /\ UNCHANGED <<http, sends, call, remote, scan, reconcileVars, episodes, playedAtVars, progress, runPodcasts,
                   classified, historySent, historyRuns, triggers, redelivered>>

\* the step after the classification of processPodcastEpisodes
AfterClassify(toUpdate, toInsert) ==
    IF Len(toUpdate) > 0 THEN "update"
    ELSE IF Len(toInsert) > 0 THEN "insert" ELSE "increment"

\* processPodcastEpisodes, lines 96-123 and 133-164: the unit after the filter,
\* the early return, the existence check and the building of the two batches
ClassifiedUnit(table, p, syncEpisodes, cacheEpisodes) ==
    LET interacted == Interacted(syncEpisodes)
        existingUuids == getExistingEpisodeUuids(table, Uuids(interacted))
        toUpdate == ToUpdate(interacted, existingUuids)
        toInsert == ToInsert(NewSyncItems(interacted, existingUuids), cacheEpisodes, p)
    IN  IF Len(interacted) = 0
        THEN [Idle EXCEPT !.pc = "increment", !.podcast = p]
        ELSE [Idle EXCEPT !.pc = AfterClassify(toUpdate, toInsert),
                          !.podcast = p,
                          !.read = TRUE,
                          !.toUpdate = toUpdate,
                          !.toInsert = toInsert]

\* the bodies of the cache responses over a set of episode listings:
\* episode_count is a field of its own, the number of listed episodes or more
EpisodeCounts(cacheEpisodes) == {Len(cacheEpisodes), MaxCache + 1}

CacheData(listings) ==
    UNION {{[episode_count |-> n, episodes |-> l] : n \in EpisodeCounts(l)} : l \in listings}

\* the cache response of the account for a podcast
AccountCacheData(p) == [episode_count |-> remote.episode_count[p], episodes |-> remote.cache[p]]

\* processPodcastEpisodes, lines 89-92: the delivery and both fetches
ClassifyStartFrom(w, syncResponses, cacheResponses) ==
    /\ units[w].pc = "idle"
    /\ FirstIdle(w)
    /\ \E p \in PodcastIds :
          /\ queue.podcast[p] > 0
          /\ queue' = [queue EXCEPT !.podcast[p] = @ - 1]
          /\ \E syncEpisodes \in syncResponses[p], cacheData \in cacheResponses[p] :
                units' = [units EXCEPT ![w] =
                             [Idle EXCEPT !.pc = "count", !.podcast = p,
                                          !.sync = syncEpisodes,
                                          !.cache = cacheData.episodes,
                                          !.count = cacheData.episode_count]]
    /\ UNCHANGED <<edgeVars, call, remote, scan, reconcileVars, episodes, playedAtVars, progress,
                   runPodcasts, classified, historySent, historyRuns, triggers, redelivered>>

SyncPodcastStart(w) ==
    ClassifyStartFrom(w, [p \in PodcastIds |-> SyncResponses(p)],
                         [p \in PodcastIds |-> CacheData(CacheResponses(p))])

\* processPodcastEpisodes, lines 94-103: the episode count is written, then
\* the filter and the early return
SyncPodcastCount(w) ==
    /\ units[w].pc = "count"
    /\ podcasts' = updatePodcastEpisodeCount(podcasts, units[w].podcast, units[w].count)
    /\ units' = [units EXCEPT ![w].pc = IF Len(Interacted(units[w].sync)) = 0
                                        THEN "increment" ELSE "exists"]
    /\ UNCHANGED <<edgeVars, call, remote, scan, bookmarks, now, lastRemote, trip, lastTotal,
                   repeated, episodes, playedAtVars, pipelineVarsButUnits>>

\* processPodcastEpisodes, lines 105-123 and 133-164: the existence check and
\* the two batches built from its answer
SyncPodcastExists(w) ==
    /\ units[w].pc = "exists"
    /\ units' = [units EXCEPT ![w] =
                    [ClassifiedUnit(episodes, units[w].podcast, units[w].sync, units[w].cache)
                        EXCEPT !.sync = units[w].sync, !.cache = units[w].cache,
                               !.count = units[w].count, !.oks = units[w].oks]]
    /\ UNCHANGED <<edgeVars, call, remote, scan, reconcileVars, episodes, playedAtVars,
                   pipelineVarsButUnits>>

\* processPodcastEpisodes, lines 125-128
SyncPodcastUpdate(w) ==
    /\ units[w].pc = "update"
    /\ episodes' = updateEpisodeSyncData(episodes, units[w].toUpdate)
    /\ units' = [units EXCEPT ![w].pc = AfterClassify(<<>>, units[w].toInsert)]
    /\ UNCHANGED <<edgeVars, call, remote, scan, reconcileVars, playedAtVars, pipelineVarsButUnits>>

\* processPodcastEpisodes, lines 166-168
SyncPodcastInsert(w) ==
    /\ units[w].pc = "insert"
    /\ \E upsert \in UpsertKinds :
          episodes' = insertNewEpisodes(episodes, units[w].toInsert, upsert)
    /\ units' = [units EXCEPT ![w].pc = "increment",
                              ![w].hit = \E i \in DOMAIN units[w].toInsert :
                                            /\ units[w].toInsert[i].uuid \in DOMAIN episodes
                                            /\ episodes[units[w].toInsert[i].uuid].played_at # NULL]
    /\ UNCHANGED <<edgeVars, call, remote, scan, reconcileVars, playedAtVars, pipelineVarsButUnits>>

\* syncPodcast, lines 64-67: the increment and the comparison; without a
\* message to send the handler returns and the consumer acknowledges
SyncPodcastIncrement(w) ==
    /\ units[w].pc = "increment"
    /\ progress' = incrementBackupProgress(progress)
    /\ classified' = classified \cup {units[w].podcast}
    /\ units' = [units EXCEPT ![w] = IF AllPodcastsSynced(progress')
                                     THEN [units[w] EXCEPT !.pc = "send"]
                                     ELSE Idle]
    /\ batch' = IF AllPodcastsSynced(progress') THEN batch ELSE HandlerReturned(batch)
    /\ UNCHANGED <<http, sends, call, remote, scan, reconcileVars, episodes, playedAtVars, queue,
                   runPodcasts, historySent, historyRuns, triggers, redelivered>>

\* syncPodcast, lines 68-70: BACKUP_QUEUE.send of the sync-history message,
\* then the consumer's ack
SyncPodcastSend(w) ==
    /\ units[w].pc = "send"
    /\ queue' = [queue EXCEPT !.history = @ + 1]
    /\ historySent' = historySent + 1
    /\ units' = [units EXCEPT ![w] = Idle]
    /\ batch' = HandlerReturned(batch)
    /\ UNCHANGED <<http, sends, call, remote, scan, reconcileVars, episodes, playedAtVars, progress,
                   runPodcasts, classified, historyRuns, triggers, redelivered>>

\* at-least-once delivery: the queue delivers a sync-podcast message again
\* while a consumer still holds it unacknowledged
Redeliver(w) ==
    /\ units[w].pc \in {"count", "exists", "update", "insert", "increment", "send"}
    /\ redelivered < MaxRedeliver
    /\ redelivered' = redelivered + 1
    /\ queue' = [queue EXCEPT !.podcast[units[w].podcast] = @ + 1]
    /\ UNCHANGED <<edgeVars, call, remote, scan, reconcileVars, episodes, playedAtVars, progress, units, runPodcasts,
                   classified, historySent, historyRuns, triggers>>

\* syncHistory: getListenHistory, then updateEpisodePlayedAt
SyncHistoryFrom(histories) ==
    /\ queue.history > 0
    /\ queue' = [queue EXCEPT !.history = @ - 1]
    /\ \E history \in histories :
          episodes' = updateEpisodePlayedAt(episodes, history).table
    /\ historyRuns' = historyRuns + 1
    /\ batch' = HandlerReturned(batch)
    /\ UNCHANGED <<http, sends, call, remote, scan, reconcileVars, playedAtVars, progress, units, runPodcasts, classified,
                   historySent, triggers, redelivered>>

SyncHistory == SyncHistoryFrom(Histories)

Stage1(w) ==
    SyncPodcastsStart(w) \/ SyncPodcastsReconcile(w) \/ SyncPodcastsReset(w)
        \/ SyncPodcastsEnqueue(w)

\* the steps of syncPodcast after its fetches
UnitSteps(w) ==
    SyncPodcastCount(w) \/ SyncPodcastExists(w) \/ SyncPodcastUpdate(w) \/ SyncPodcastInsert(w)
        \/ SyncPodcastIncrement(w) \/ SyncPodcastSend(w)

Stage2(w) == SyncPodcastStart(w) \/ UnitSteps(w)

\* one run of the pipeline, at-least-once delivery
Next ==
    \/ Trigger
    \/ \E w \in Workers : Stage1(w) \/ Stage2(w) \/ Redeliver(w)
    \/ SyncHistory

Spec == InitStored /\ [][Next]_vars

\* one run of the pipeline, every message delivered exactly once
NextOnce ==
    \/ Trigger
    \/ \E w \in Workers : Stage1(w) \/ Stage2(w)
    \/ SyncHistory

SpecOnce == InitStored /\ [][NextOnce]_vars

(***************************************************************************)
(* One stage-2 unit for podcast p1, over sync and cache responses of any   *)
(* shape                                                                   *)
(***************************************************************************)
\* sync states with and without evidence of interaction
ClassifySyncStates ==
    { [playingStatus |-> 0, playedUpTo |-> 0, starred |-> TRUE, isDeleted |-> FALSE],
      [playingStatus |-> 0, playedUpTo |-> 1, starred |-> FALSE, isDeleted |-> FALSE],
      [playingStatus |-> 2, playedUpTo |-> 0, starred |-> TRUE, isDeleted |-> FALSE],
      [playingStatus |-> 3, playedUpTo |-> 2, starred |-> TRUE, isDeleted |-> TRUE] }

ClassifySyncResponses ==
    SeqUpTo({SyncItem(u, st) : u \in EpisodeIds, st \in ClassifySyncStates}, MaxSync)

\* the cache names e1 under a title other than the stored one
ClassifyCacheResponses ==
    SeqUpTo({[uuid |-> "e1", title |-> "t2"], [uuid |-> "e2", title |-> "t1"]}, MaxCache)

\* the state stage 1 leaves for a run whose remote list is p1
InitClassify ==
    /\ podcasts = savePodcasts(EmptyTable, <<[uuid |-> "p1", title |-> "t1"]>>, 1)
    /\ bookmarks = EmptyTable
    /\ now = 1
    /\ lastRemote = [podcasts |-> <<{"p1"}>>, bookmarks |-> <<{}>>]
    /\ trip = [podcasts |-> [u \in PodcastIds |-> IF u = "p1" THEN 1 ELSE 0],
               bookmarks |-> [u \in BookmarkIds |-> 0]]
    /\ lastTotal = [podcasts |-> 1, bookmarks |-> 0]
    /\ repeated = [podcasts |-> NULL, bookmarks |-> NULL]
    /\ episodes \in StoredBefore
    /\ lastCall = <<>>
    /\ lastResult = [updated |-> 0, skipped |-> 0]
    /\ progress = resetBackupProgress(1)
    /\ queue = [podcasts |-> 0, podcast |-> [p \in PodcastIds |-> IF p = "p1" THEN 1 ELSE 0],
                history |-> 0]
    /\ units = [w \in Workers |-> Idle]
    /\ runPodcasts = {"p1"}
    /\ classified = {}
    /\ historySent = 0
    /\ historyRuns = 0
    /\ triggers = 1
    /\ redelivered = 0
    /\ scan = NoScan
    /\ call = NoCall
    /\ http = NoHttp
    /\ batch = NoBatch
    /\ sends = NoSends
    /\ remote = NoRemote

\* processPodcastEpisodes, lines 96-168, as one step on the episodes table
ProcessPodcastEpisodes(table, p, syncEpisodes, cacheEpisodes, upsert) ==
    LET unit == ClassifiedUnit(table, p, syncEpisodes, cacheEpisodes)
        updated == IF unit.toUpdate # <<>> THEN updateEpisodeSyncData(table, unit.toUpdate)
                   ELSE table
    IN  IF unit.toInsert # <<>> THEN insertNewEpisodes(updated, unit.toInsert, upsert)
        ELSE updated

ClassifyStart(w) ==
    ClassifyStartFrom(w, [p \in PodcastIds |-> ClassifySyncResponses],
                         [p \in PodcastIds |-> CacheData(ClassifyCacheResponses)])

NextClassify == \E w \in Workers : ClassifyStart(w) \/ UnitSteps(w)

SpecClassify == InitClassify /\ [][NextClassify]_vars

(***************************************************************************)
(* Handlers whose requests all observe one remote account                  *)
(***************************************************************************)
\* syncPodcasts, lines 20-28, against the account
AccountSyncPodcastsStart(w) == SyncPodcastsStartFrom(w, {remote.podcasts}, {remote.bookmarks})

\* processPodcastEpisodes, lines 89-164, against the account
AccountClassifyStart(w) ==
    ClassifyStartFrom(w, [p \in PodcastIds |-> {remote.sync[p]}],
                         [p \in PodcastIds |-> {AccountCacheData(p)}])

\* syncHistory against the account
AccountSyncHistory == SyncHistoryFrom({remote.history})

(***************************************************************************)
(* The stage-2 units of one run, for p1 and p2, side by side               *)
(***************************************************************************)
\* sync responses of a podcast naming its own episodes, in any sync state
UnitSyncResponses(p) ==
    {<<>>} \cup {<<SyncItem(u, st)>> : u \in EpisodesOfPodcast(p), st \in ClassifySyncStates}

\* accounts with one response per podcast, each naming the podcast's own episodes
UnitAccounts ==
    { [NoRemote EXCEPT !.podcasts = <<[uuid |-> "p1", title |-> "t1"],
                                      [uuid |-> "p2", title |-> "t1"]>>,
                       !.sync = [p \in PodcastIds |-> IF p = "p1" THEN s1 ELSE s2],
                       !.cache = [p \in PodcastIds |-> IF p = "p1" THEN c1 ELSE c2],
                       !.episode_count = [p \in PodcastIds |->
                                             Len(IF p = "p1" THEN c1 ELSE c2) + 1],
                       !.before = [@ EXCEPT !.episodes = stored]] :
        s1 \in UnitSyncResponses("p1"), s2 \in UnitSyncResponses("p2"),
        c1 \in CacheResponses("p1"), c2 \in CacheResponses("p2"),
        stored \in StoredBefore }

\* the state stage 1 leaves for a run whose remote list is p1, p2
InitUnits ==
    /\ remote \in UnitAccounts
    /\ podcasts = savePodcasts(EmptyTable, remote.podcasts, 1)
    /\ bookmarks = EmptyTable
    /\ now = 1
    /\ lastRemote = [podcasts |-> <<PodcastIds>>, bookmarks |-> <<{}>>]
    /\ trip = [podcasts |-> [u \in PodcastIds |-> 1], bookmarks |-> [u \in BookmarkIds |-> 0]]
    /\ lastTotal = [podcasts |-> Len(remote.podcasts), bookmarks |-> 0]
    /\ repeated = [podcasts |-> NULL, bookmarks |-> NULL]
    /\ episodes = remote.before.episodes
    /\ lastCall = <<>>
    /\ lastResult = [updated |-> 0, skipped |-> 0]
    /\ progress = resetBackupProgress(Len(remote.podcasts))
    /\ queue = [podcasts |-> 0, podcast |-> [p \in PodcastIds |-> 1], history |-> 0]
    /\ units = [w \in Workers |-> Idle]
    /\ runPodcasts = PodcastIds
    /\ classified = {}
    /\ historySent = 0
    /\ historyRuns = 0
    /\ triggers = 1
    /\ redelivered = 0
    /\ scan = NoScan
    /\ call = NoCall
    /\ http = NoHttp
    /\ batch = NoBatch
    /\ sends = NoSends

NextUnits == \E w \in Workers : AccountClassifyStart(w) \/ UnitSteps(w)

SpecUnits == InitUnits /\ [][NextUnits]_vars

(***************************************************************************)
(* Two overlapping runs, manual and scheduled, against one remote account  *)
(***************************************************************************)
\* accounts: p1 alone or p1 and p2, bookmark b1, one interacted episode per
\* podcast, a history naming both; before the runs the store holds p2 and b2
OverlapAccounts ==
    { [podcasts |-> list,
       bookmarks |-> <<[uuid |-> "b1", title |-> "t1"]>>,
       sync |-> [p \in PodcastIds |->
                    IF p = "p1"
                    THEN <<[uuid |-> "e1", playingStatus |-> 3, playedUpTo |-> 2,
                            starred |-> TRUE, isDeleted |-> TRUE]>>
                    ELSE <<[uuid |-> "e2", playingStatus |-> 2, playedUpTo |-> 0,
                            starred |-> TRUE, isDeleted |-> FALSE]>>],
       cache |-> [p \in PodcastIds |->
                    IF p = "p1" THEN <<[uuid |-> "e1", title |-> "t2"]>>
                    ELSE <<[uuid |-> "e2", title |-> "t1"]>>],
       episode_count |-> [p \in PodcastIds |-> IF p = "p1" THEN MaxCache + 1 ELSE 1],
       history |-> <<[uuid |-> "e1", played_at |-> 2], [uuid |-> "e2", played_at |-> 1]>>,
       before |-> [podcasts |-> savePodcasts(EmptyTable, <<[uuid |-> "p2", title |-> "t1"]>>, 1),
                   bookmarks |-> saveBookmarks(EmptyTable, <<[uuid |-> "b2", title |-> "t1"]>>, 1),
                   episodes |-> stored]] :
        list \in {<<[uuid |-> "p1", title |-> "t1"]>>,
                  <<[uuid |-> "p1", title |-> "t1"], [uuid |-> "p2", title |-> "t1"]>>},
        stored \in StoredBefore }

\* the store an earlier backup of another account state left, and nothing
\* of the pipeline in progress
InitAccount(accounts) ==
    /\ remote \in accounts
    /\ podcasts = remote.before.podcasts
    /\ bookmarks = remote.before.bookmarks
    /\ now = 1
    /\ lastRemote = [podcasts |-> <<{"p2"}>>, bookmarks |-> <<{"b2"}>>]
    /\ trip = [podcasts |-> [u \in PodcastIds |-> IF u = "p2" THEN 1 ELSE 0],
               bookmarks |-> [u \in BookmarkIds |-> IF u = "b2" THEN 1 ELSE 0]]
    /\ lastTotal = [podcasts |-> 1, bookmarks |-> 1]
    /\ repeated = [podcasts |-> NULL, bookmarks |-> NULL]
    /\ episodes = remote.before.episodes
    /\ lastCall = <<>>
    /\ lastResult = [updated |-> 0, skipped |-> 0]
    /\ progress = [completed |-> 0, total |-> 0]
    /\ queue = [podcasts |-> 0, podcast |-> [p \in PodcastIds |-> 0], history |-> 0]
    /\ units = [w \in Workers |-> Idle]
    /\ runPodcasts = {}
    /\ classified = {}
    /\ historySent = 0
    /\ historyRuns = 0
    /\ triggers = 0
    /\ redelivered = 0
    /\ scan = NoScan
    /\ call = NoCall
    /\ http = NoHttp
    /\ batch = NoBatch
    /\ sends = NoSends

InitOverlap == InitAccount(OverlapAccounts)

\* GET /backup and the scheduled handler each send one sync-podcasts message
TriggerOverlap == TriggerWhen({0, 1})

NextOverlap ==
    \/ TriggerOverlap
    \/ Tick
    \/ \E w \in Workers :
          \/ AccountSyncPodcastsStart(w) \/ SyncPodcastsReconcile(w)
          \/ SyncPodcastsReset(w) \/ SyncPodcastsEnqueue(w)
          \/ AccountClassifyStart(w) \/ UnitSteps(w)
    \/ AccountSyncHistory

SpecOverlap == InitOverlap /\ [][NextOverlap]_vars

\* accounts whose responses for p1 and whose listen history vary
RedeliveryAccounts ==
    { [a EXCEPT !.sync["p1"] = s1, !.cache["p1"] = c1, !.history = h] :
        a \in OverlapAccounts, s1 \in SyncResponses("p1"), c1 \in CacheResponses("p1"),
        h \in {<<>>, <<[uuid |-> "e1", played_at |-> 1]>>,
                <<[uuid |-> "e1", played_at |-> 2], [uuid |-> "e2", played_at |-> 1]>>} }

\* one run against the account, its sync-podcast messages delivered at least once
NextRedelivery ==
    \/ Trigger
    \/ \E w \in Workers :
          \/ AccountSyncPodcastsStart(w) \/ SyncPodcastsReconcile(w)
          \/ SyncPodcastsReset(w) \/ SyncPodcastsEnqueue(w)
          \/ AccountClassifyStart(w) \/ UnitSteps(w) \/ Redeliver(w)
    \/ AccountSyncHistory

SpecRedelivery == InitAccount(RedeliveryAccounts) /\ [][NextRedelivery]_vars

\* two sync-podcasts messages in flight, each handler reading the remote
\* lists afresh: the statements of their reconciliations interleave
NextRuns == TriggerOverlap \/ \E w \in Workers : Stage1(w)

SpecRuns == Init /\ [][NextRuns]_vars

\* processPodcastEpisodes for the podcasts of a list, one after another
RECURSIVE RunUnits(_, _, _)
RunUnits(table, list, upsert) ==
    IF list = <<>> THEN table
    ELSE RunUnits(ProcessPodcastEpisodes(table, Head(list).uuid, remote.sync[Head(list).uuid],
                                         remote.cache[Head(list).uuid], upsert),
                  Tail(list), upsert)

\* updatePodcastEpisodeCount for the podcasts of a list, one after another
RECURSIVE CountUnits(_, _)
CountUnits(table, list) ==
    IF list = <<>> THEN table
    ELSE CountUnits(updatePodcastEpisodeCount(table, Head(list).uuid,
                                              remote.episode_count[Head(list).uuid]),
                    Tail(list))

\* the tables one run leaves whose stage 1 runs the upserts of savePodcasts
\* at time tb, its mark UPDATE at time tu and saveBookmarks at time s; then
\* the units, then stage 3, every insert with that upsert
SingleRun(tb, tu, s, upsert) ==
    [podcasts |-> CountUnits(SaveStatement(SaveStatement(remote.before.podcasts,
                                                         remote.podcasts, "batch", tb),
                                           remote.podcasts, "update", tu),
                             remote.podcasts),
     bookmarks |-> saveBookmarks(remote.before.bookmarks, remote.bookmarks, s),
     episodes |-> updateEpisodePlayedAt(RunUnits(remote.before.episodes, remote.podcasts,
                                                 upsert),
                                        remote.history).table]

(***************************************************************************)
(* Calls of the remote client operations, one after another                *)
(***************************************************************************)
\* the operation is called and issues its fetch
ClientFetch ==
    /\ call.pc \in {"idle", "settled"}
    /\ \E op \in ClientOps : \E resource \in ClientResources(op) :
          call' = [NoCall EXCEPT !.pc = "fetching", !.op = op, !.resource = resource,
                                 !.fetches = 1]
    /\ UNCHANGED <<edgeVars, remote, scan, reconcileVars, episodes, playedAtVars, pipelineVars>>

\* the response arrives: the operation throws or returns the parsed body
ClientSettle ==
    /\ call.pc = "fetching"
    /\ \E res \in ClientResponses(call.op, call.resource) :
          call' = [call EXCEPT !.pc = "settled", !.response = <<res>>,
                               !.outcome = <<ClientOutcome(call.op, call.resource, res)>>]
    /\ UNCHANGED <<edgeVars, remote, scan, reconcileVars, episodes, playedAtVars, pipelineVars>>

NextClient == ClientFetch \/ ClientSettle

SpecClient == Init /\ [][NextClient]_vars

(***************************************************************************)
(* HTTP routes: src/src/index.tsx                                          *)
(***************************************************************************)
Passwords == {"pw1", "pw2"}

\* generateToken: the hex SHA-256 digest of the password; an unset password
\* is encoded as the empty string
generateToken(password) ==
    [kind |-> "sha256", of |-> IF password = <<>> THEN "" ELSE password[1]]

\* the secrets of a deployment; <<>> is an unset secret
Envs == [PASS : {<<>>} \cup {<<pw>> : pw \in Passwords}, EMAIL : {<<>>, <<"me">>}]

\* values of the session cookie: none, a digest, or a password in clear
SessionCookies ==
    {<<>>} \cup {<<generateToken(pass)>> : pass \in {<<>>} \cup {<<pw>> : pw \in Passwords}}
           \cup {<<[kind |-> "text", of |-> pw]>> : pw \in Passwords}

ProtectedRoutes == {"/backup", "/episodes", "/podcasts", "/podcast/:uuid", "/bookmarks", "/export"}

HttpRequests ==
    [method : {"GET"}, route : ProtectedRoutes \cup {"/"}, cookie : SessionCookies,
     password : {<<>>}, uuid : PodcastIds]
    \cup [method : {"POST"}, route : {"/login"}, cookie : SessionCookies,
          password : {<<>>} \cup {<<pw>> : pw \in Passwords}, uuid : {"p1"}]
    \cup [method : {"POST"}, route : {"/logout"}, cookie : SessionCookies,
          password : {<<>>}, uuid : {"p1"}]

\* requireAuth, line 32: token === expected
SessionMatchesAnyCookie(token, expected) == token # <<>>

SessionMatches(token, expected) == token = <<expected>>

HttpResponse(status, location, setCookie) ==
    [status |-> status, location |-> location, setCookie |-> setCookie]

\* the route handlers behind requireAuth, lines 68-142
ProtectedHandler(env, req, table, accepted) ==
    IF req.route = "/backup"
    THEN IF env.EMAIL = <<>> \/ env.PASS = <<>> \/ ~accepted
         THEN [response |-> HttpResponse(500, <<>>, <<>>), reads |-> FALSE, sent |-> FALSE]
         ELSE [response |-> HttpResponse(200, <<>>, <<>>), reads |-> FALSE, sent |-> TRUE]
    ELSE IF req.route = "/podcast/:uuid" /\ req.uuid \notin DOMAIN table
    THEN [response |-> HttpResponse(404, <<>>, <<>>), reads |-> TRUE, sent |-> FALSE]
    ELSE [response |-> HttpResponse(200, <<>>, <<>>), reads |-> TRUE, sent |-> FALSE]

\* app.fetch: the response to a request, whether the store was read and
\* whether a sync-podcasts message was sent; accepted: BACKUP_QUEUE.send
\* resolves, else it rejects and the catch of lines 75-80 answers 500
HandleRequest(env, req, table, accepted) ==
    LET matches == SessionMatches(req.cookie, generateToken(env.PASS))
    IN  IF req.route \in ProtectedRoutes
        THEN IF ~matches
             THEN [response |-> HttpResponse(302, <<"/">>, <<>>), reads |-> FALSE, sent |-> FALSE]
             ELSE ProtectedHandler(env, req, table, accepted)
        ELSE IF req.route = "/"
        THEN [response |-> IF matches THEN HttpResponse(302, <<"/episodes">>, <<>>)
                           ELSE HttpResponse(200, <<>>, <<>>),
              reads |-> FALSE, sent |-> FALSE]
        ELSE IF req.route = "/login"
        THEN [response |-> IF req.password = <<>> \/ req.password # env.PASS
                           THEN HttpResponse(401, <<>>, <<>>)
                           ELSE HttpResponse(302, <<"/episodes">>,
                                             <<generateToken(req.password)>>),
              reads |-> FALSE, sent |-> FALSE]
        ELSE [response |-> HttpResponse(302, <<"/">>, <<[kind |-> "deleted", of |-> ""]>>),
              reads |-> FALSE, sent |-> FALSE]

\* a deployment with its secrets, the store holding podcast p1
InitHttp ==
    /\ podcasts = savePodcasts(EmptyTable, <<[uuid |-> "p1", title |-> "t1"]>>, 1)
    /\ bookmarks = EmptyTable
    /\ now = 1
    /\ lastRemote = [podcasts |-> <<{"p1"}>>, bookmarks |-> <<{}>>]
    /\ trip = [podcasts |-> [u \in PodcastIds |-> IF u = "p1" THEN 1 ELSE 0],
               bookmarks |-> [u \in BookmarkIds |-> 0]]
    /\ lastTotal = [podcasts |-> 1, bookmarks |-> 0]
    /\ repeated = [podcasts |-> NULL, bookmarks |-> NULL]
    /\ episodes \in StoredBefore
    /\ lastCall = <<>>
    /\ lastResult = [updated |-> 0, skipped |-> 0]
    /\ progress = [completed |-> 0, total |-> 0]
    /\ queue = [podcasts |-> 0, podcast |-> [p \in PodcastIds |-> 0], history |-> 0]
    /\ units = [w \in Workers |-> Idle]
    /\ runPodcasts = {}
    /\ classified = {}
    /\ historySent = 0
    /\ historyRuns = 0
    /\ triggers = 0
    /\ redelivered = 0
    /\ scan = NoScan
    /\ remote = NoRemote
    /\ call = NoCall
    /\ http \in {[NoHttp EXCEPT !.env = env] : env \in Envs}
    /\ batch = NoBatch
    /\ sends = NoSends

\* one request handled by app.fetch; the requests that queue a backup are
\* followed up to the first queued message
HttpRequest ==
    \E req \in HttpRequests, accepted \in BOOLEAN :
        LET out == HandleRequest(http.env, req, podcasts, accepted)
        IN  /\ out.sent => triggers = 0
            /\ http' = [http EXCEPT !.request = <<req>>, !.response = <<out.response>>,
                                    !.reads = out.reads, !.sent = out.sent]
            /\ triggers' = IF out.sent THEN triggers + 1 ELSE triggers
            /\ queue' = IF out.sent THEN [queue EXCEPT !.podcasts = @ + 1] ELSE queue
            /\ UNCHANGED <<batch, sends, call, remote, scan, reconcileVars, episodes,
                           playedAtVars, progress, units, runPodcasts, classified,
                           historySent, historyRuns, redelivered>>

NextHttp == HttpRequest

SpecHttp == InitHttp /\ [][NextHttp]_vars

\* reconciliation passes one after another
(***************************************************************************)
(* Calls of savePodcasts and saveBookmarks, each awaited statement a step  *)
(***************************************************************************)
\* the remote lists a caller hands to the reconciliation of a table
SaveLists(which) == IF which = "podcasts" THEN PodcastLists ELSE BookmarkLists

\* a caller calls savePodcasts or saveBookmarks with the list; the call runs
\* up to its first await
SaveCall(w, which, list) ==
    [Idle EXCEPT !.pc = "pass",
                 !.list = IF which = "podcasts" THEN list ELSE <<>>,
                 !.marks = IF which = "bookmarks" THEN list ELSE <<>>,
                 !.save = [NoSave EXCEPT ![which] = FirstSaveStage(list)]]

\* a call on the table is between its first statement and its return
InPass(which) == \E w \in Workers : units[w].save[which] \notin {"none", "done"}

\* a call starts; apart: only when no other call is in progress
SavePassStart(which, apart) ==
    /\ apart => \A w \in Workers : units[w].pc = "idle"
    /\ \E w \in Workers, list \in SaveLists(which) :
          /\ units[w].pc = "idle"
          /\ FirstIdle(w)
          /\ units' = [units EXCEPT ![w] = SaveCall(w, which, list)]
    /\ UNCHANGED <<edgeVars, call, remote, scan, reconcileVars, episodes, playedAtVars,
                   pipelineVarsButUnits>>

\* src/src/db.ts 98-115: the database runs the statement the call awaits:
\* db.batch(batch), the mark UPDATE, or the SELECT COUNT(*) whose total the
\* call returns
SavePassStatement(w) ==
    /\ units[w].pc = "pass"
    /\ \E which \in DOMAIN units[w].save :
          LET stage == units[w].save[which]
              list == SaveList(units[w], which)
              active == ActiveUuids(list)
              ids == IF which = "podcasts" THEN PodcastIds ELSE BookmarkIds
          IN  /\ stage \notin {"none", "done"}
              /\ podcasts' = IF which = "podcasts"
                             THEN SaveStatement(podcasts, list, stage, now) ELSE podcasts
              /\ bookmarks' = IF which = "bookmarks"
                              THEN BookmarkStatement(bookmarks, list, stage, now) ELSE bookmarks
              /\ repeated' = IF stage = "update"
                             THEN [repeated EXCEPT ![which] =
                                      IF lastRemote[which] = <<active>> THEN now ELSE NULL]
                             ELSE repeated
              /\ IF stage = "count"
                 THEN /\ lastRemote' = [lastRemote EXCEPT ![which] = <<active>>]
                      /\ trip' = [trip EXCEPT ![which] =
                                     [u \in ids |-> TripStep(trip[which][u], u \in active)]]
                      /\ lastTotal' = [lastTotal EXCEPT ![which] =
                                          CountRows(IF which = "podcasts" THEN podcasts
                                                    ELSE bookmarks)]
                      /\ units' = [units EXCEPT ![w] = Idle]
                 ELSE /\ UNCHANGED <<lastRemote, trip, lastTotal>>
                      /\ units' = [units EXCEPT ![w].save[which] = NextSaveStage(stage)]
    /\ UNCHANGED <<edgeVars, call, remote, scan, now, episodes, playedAtVars,
                   pipelineVarsButUnits>>

\* calls one after another
NextReconcile ==
    \/ Tick
    \/ \E which \in {"podcasts", "bookmarks"} : SavePassStart(which, TRUE)
    \/ \E w \in Workers : SavePassStatement(w)

SpecReconcile == Init /\ [][NextReconcile]_vars



(***************************************************************************)
(* The worker of src/src/templates.ts 165-290: handleBackup, behind the    *)
(* route "/backup" and the scheduled event, saves the listen history with  *)
(* saveHistory                                                             *)
(***************************************************************************)
HistoryEpisode(u, p) ==
    [uuid |-> u, podcastUuid |-> p, title |-> "t1", playingStatus |-> 3, playedUpTo |-> 2,
     isDeleted |-> FALSE, starred |-> FALSE]

\* results of getListenHistory(token) as that worker reads them
HistoryResponses ==
    {[episodes |-> l] :
        l \in {<<>>, <<HistoryEpisode("e1", "p1")>>, <<HistoryEpisode("e2", "p2")>>,
                <<HistoryEpisode("e1", "p1"), HistoryEpisode("e2", "p2")>>}}

\* templates.ts 196-200: validateEnvironment, initDatabase, login and
\* getListenHistory; none of them writes a row. One of them throwing ends the
\* handler in the catch block with the 500 response.
HandleBackupStart(w) ==
    /\ units[w].pc \in {"idle", "responded"}
    /\ \/ \E history \in HistoryResponses :
             units' = [units EXCEPT ![w] = [Idle EXCEPT !.pc = "replace", !.list = history.episodes]]
       \/ units' = [units EXCEPT ![w] = [Idle EXCEPT !.pc = "responded", !.threw = "fetch"]]
    /\ UNCHANGED <<edgeVars, call, remote, scan, reconcileVars, episodes, playedAtVars,
                   pipelineVarsButUnits>>

\* src/src/db.ts 39: await db.batch(batch). The batch resolving leads to the
\* COUNT query; the batch rejecting (with the rows written or not) is caught
\* by templates.ts 212-215, which answers 500.
HandleBackupBatch(w) ==
    /\ units[w].pc = "replace"
    /\ \/ /\ episodes' = ReplaceHistoryEpisodes(episodes, units[w].list)
          /\ units' = [units EXCEPT ![w].pc = "total"]
       \/ /\ episodes' \in {episodes, ReplaceHistoryEpisodes(episodes, units[w].list)}
          /\ units' = [units EXCEPT ![w].pc = "responded", ![w].threw = "replace"]
    /\ UNCHANGED <<edgeVars, call, remote, scan, reconcileVars, playedAtVars,
                   pipelineVarsButUnits>>

\* src/src/db.ts 41-42 and templates.ts 203-210: the SELECT COUNT(*) and the
\* response {synced: history.episodes.length, total: savedHistory.total}; the
\* query rejecting is caught by templates.ts 212-215 (500), the rows of the
\* batch staying written.
HandleBackupCount(w) ==
    /\ units[w].pc = "total"
    /\ \/ units' = [units EXCEPT ![w].pc = "responded",
                                 ![w].count = Cardinality(DOMAIN episodes)]
       \/ units' = [units EXCEPT ![w].pc = "responded", ![w].threw = "total"]
    /\ UNCHANGED <<edgeVars, call, remote, scan, reconcileVars, episodes, playedAtVars,
                   pipelineVarsButUnits>>

\* templates.ts 195-216: the try block and its catch. The response is the
\* success body when nothing threw and the 500 of createErrorResponse when a
\* call of the try block threw.
handleBackup(w) == HandleBackupStart(w) \/ HandleBackupBatch(w) \/ HandleBackupCount(w)

BackupStatus(w) == IF units[w].threw = "" THEN 200 ELSE 500

NextBackup == \E w \in Workers : handleBackup(w)

SpecBackup == InitStored /\ [][NextBackup]_vars

\* saveHistory run alone on the store holding e1 with its played_at set, the
\* history naming e1 and e2: two rows, both with played_at NULL, total 2
BackupReplacesStoredRow ==
    /\ units["w1"].pc = "responded"
    /\ BackupStatus("w1") = 200
    /\ units["w1"].count = 2
    /\ units["w1"].list = <<HistoryEpisode("e1", "p1"), HistoryEpisode("e2", "p2")>>
    /\ DOMAIN episodes = {"e1", "e2"}
    /\ episodes["e1"].playing_status = 3 /\ episodes["e1"].played_up_to = 2
    /\ episodes["e1"].played_at = NULL
    /\ episodes["e2"].podcast_uuid = "p2" /\ episodes["e2"].played_at = NULL

(***************************************************************************)
(* updateEpisodePlayedAt called again and again on a store of episodes     *)
(***************************************************************************)
Candidates == SeqUpTo([uuid : EpisodeIds, played_at : 1..MaxTime], MaxCandidates)

StoredRow(u) == [uuid |-> u, title |-> "t1", podcast_uuid |-> "p1", playing_status |-> 3,
                 played_up_to |-> 2, is_deleted |-> 0, starred |-> 0]

\* the episode tables insertNewEpisodes leaves: any stored ids, played_at NULL
InsertedTables ==
    { insertNewEpisodes(NoEpisodes, l, "replace") :
        l \in {<<>>, <<StoredRow("e1")>>, <<StoredRow("e2")>>,
                <<StoredRow("e1"), StoredRow("e2")>>} }

InitPlayedAt == InitButEpisodes /\ episodes \in InsertedTables

UpdatePlayedAtCall ==
    \E candidates \in Candidates :
        LET r == updateEpisodePlayedAt(episodes, candidates)
        IN  /\ episodes' = r.table
            /\ lastCall' = candidates
            /\ lastResult' = r.result
            /\ UNCHANGED <<edgeVars, call, remote, scan, reconcileVars, pipelineVars>>

NextPlayedAt == UpdatePlayedAtCall

SpecPlayedAt == InitPlayedAt /\ [][NextPlayedAt]_vars

(***************************************************************************)
(* One call of getListenHistory, request by request                        *)
(***************************************************************************)

\* getListenHistory is called, lines 37-38
HistoryStart ==
    /\ scan.pc = "idle"
    /\ scan' = [NoScan EXCEPT !.pc = "count"]
    /\ UNCHANGED <<edgeVars, call, remote, reconcileVars, episodes, playedAtVars, pipelineVars>>

\* lines 41-48: the count query of the year and the stop on a zero count;
\* zeroAt records the year whose count response had no count or count 0
HistoryCount ==
    /\ scan.pc = "count"
    /\ \E res \in CountResponses :
          LET asked == [scan EXCEPT !.requests = Append(@, [year |-> scan.year, count |-> TRUE])]
          IN  scan' =
                IF ~res.ok THEN Failed(asked, scan.year, res)
                ELSE LET noted == [asked EXCEPT !.response = <<res>>,
                                                !.zeroAt = IF res.count \in {<<>>, <<0>>}
                                                           THEN <<scan.year>> ELSE @]
                     IN  IF StopsScan(CountTotal(res))
                         THEN [noted EXCEPT !.pc = "done", !.entries = Entries(scan.seen)]
                         ELSE [noted EXCEPT !.pc = "full"]
    /\ UNCHANGED <<edgeVars, call, remote, reconcileVars, episodes, playedAtVars, pipelineVars>>

\* lines 50-68 and 70-84: the full query of the year, the merge of its play
\* records, then the next older year or the result; played records the
\* episodes with an action 1 record in the responses received
HistoryFullFrom(responses) ==
    /\ scan.pc = "full"
    /\ \E res \in responses :
          LET asked == [scan EXCEPT !.requests = Append(@, [year |-> scan.year, count |-> FALSE])]
          IN  scan' =
                IF ~res.ok THEN Failed(asked, scan.year, res)
                ELSE LET changes == ChangesOf(res)
                         seen == MergePlays(scan.seen, PlayActions(changes))
                         pc == AfterYear(scan.year, res)
                     IN  [asked EXCEPT
                            !.response = <<res>>,
                            !.seen = seen,
                            !.played = @ \cup {changes[i].episode :
                                                 i \in {j \in DOMAIN changes : changes[j].action = 1}},
                            !.pc = pc,
                            !.year = IF pc = "count" THEN @ - 1 ELSE @,
                            !.entries = IF pc = "done" THEN Entries(seen) ELSE @]
    /\ UNCHANGED <<edgeVars, call, remote, reconcileVars, episodes, playedAtVars, pipelineVars>>

HistoryFull == HistoryFullFrom(FullResponses)

\* the candidates syncHistory hands to updateEpisodePlayedAt; the store orders
\* timestamps as their epoch values are ordered
HistoryCandidates(entries) ==
    [i \in DOMAIN entries |-> [uuid |-> entries[i].uuid, played_at |-> entries[i].played_at.iso]]

\* syncHistory, line 77: updateEpisodePlayedAt with the history the call returned
HistoryApply ==
    /\ scan.pc = "done"
    /\ ~scan.applied
    /\ LET r == updateEpisodePlayedAt(episodes, HistoryCandidates(scan.entries))
       IN  /\ episodes' = r.table
           /\ lastCall' = HistoryCandidates(scan.entries)
           /\ lastResult' = r.result
    /\ scan' = [scan EXCEPT !.applied = TRUE]
    /\ UNCHANGED <<edgeVars, call, remote, reconcileVars, pipelineVars>>

NextHistory == HistoryStart \/ HistoryCount \/ HistoryFull \/ HistoryApply

SpecHistory == InitStored /\ [][NextHistory]_vars

\* getListenHistory alone, over full responses of at most one change record
ScanFullResponses == {res \in FullResponses : res.changes = <<>> \/ Len(res.changes[1]) <= 1}

NextScan == HistoryStart \/ HistoryCount \/ HistoryFullFrom(ScanFullResponses)

SpecScan == Init /\ [][NextScan]_vars

\* a call of getListenHistory that is started runs on until it returns or throws
FairSpecScan == SpecScan /\ WF_vars(NextScan)

(***************************************************************************)
(* syncPodcasts statement by statement: login, the two fetches, the two    *)
(* reconciliations, the reset and the sendBatch loop                       *)
(***************************************************************************)
BatchLimit == 100

Tokens == {"tok"}

login(res) ==
    IF ~res.ok THEN Threw("Login failed", <<>>, <<res.status>>) ELSE Returned(res.body)

\* the responses of the remote API to a request whose success bodies are bodies
ResponsesOf(bodies) ==
    {[ok |-> TRUE, status |-> OkStatus, body |-> b] : b \in bodies}
    \cup {[ok |-> FALSE, status |-> st, body |-> <<>>] : st \in {ForbiddenStatus, ErrorStatus}}

\* the statement after each statement of syncPodcasts, sending before the reset
Stage1AfterSendsFirst(pc) ==
    CASE pc = "login" -> "fetch"
      [] pc = "fetch" -> "save"
      [] pc = "save"  -> "send"
      [] pc = "send"  -> "reset"
      [] OTHER        -> "done"

\* the statement after each statement of syncPodcasts
Stage1After(pc) ==
    CASE pc = "login" -> "fetch"
      [] pc = "fetch" -> "save"
      [] pc = "save"  -> "reset"
      [] pc = "reset" -> "send"
      [] OTHER        -> "done"

\* podcastList.podcasts.map(...): one message per entry, in list order
SyncPodcastMessages(token, list) ==
    [k \in DOMAIN list |-> [type |-> "sync-podcast", token |-> token,
                            podcastUuid |-> list[k].uuid, podcastTitle |-> list[k].title]]

\* a slice that takes the element at index to as well
SliceInclusive(messages, from, to) ==
    SubSeq(messages, from + 1, IF to + 1 < Len(messages) THEN to + 1 ELSE Len(messages))

\* messages.slice(from, to)
Slice(messages, from, to) ==
    SubSeq(messages, from + 1, IF to < Len(messages) THEN to ELSE Len(messages))

\* the delivery of the sync-podcasts message and line 20
SyncPodcastsLogin ==
    /\ sends.pc = "idle"
    /\ queue.podcasts > 0
    /\ queue' = [queue EXCEPT !.podcasts = @ - 1]
    /\ \E res \in ResponsesOf(Tokens) :
          LET out == login(res)
              frame == [NoSends EXCEPT !.responses = <<res>>,
                                       !.log = <<"login">>,
                                       !.before = <<[podcasts |-> podcasts,
                                                     bookmarks |-> bookmarks,
                                                     progress |-> progress,
                                                     queue |-> queue.podcast]>>]
          IN  sends' = IF out.threw
                       THEN [frame EXCEPT !.pc = "failed"]
                       ELSE [frame EXCEPT !.pc = Stage1After("login"), !.token = out.value]
    /\ UNCHANGED <<http, batch, call, remote, scan, reconcileVars, episodes, playedAtVars,
                   progress, units, runPodcasts, classified, historySent, historyRuns,
                   triggers, redelivered>>

\* lines 21-24: Promise.all of getPodcastList and getBookmarks
SyncPodcastsFetch(lists, marksLists) ==
    /\ sends.pc = "fetch"
    /\ \E resP \in ResponsesOf(lists), resB \in ResponsesOf(marksLists) :
          LET outP == getPodcastList(resP)
              outB == getBookmarks(resB)
              frame == [sends EXCEPT !.responses = @ \o <<resP, resB>>,
                                     !.log = @ \o <<"getPodcastList", "getBookmarks">>]
          IN  sends' = IF outP.threw \/ outB.threw
                       THEN [frame EXCEPT !.pc = "failed"]
                       ELSE [frame EXCEPT !.pc = Stage1After("fetch"),
                                          !.podcastList = outP.value,
                                          !.bookmarkList = outB.value,
                                          !.save = [podcasts |-> FirstSaveStage(outP.value[1]),
                                                    bookmarks |-> FirstSaveStage(outB.value[1])]]
    /\ UNCHANGED <<http, batch, call, remote, scan, reconcileVars, episodes, playedAtVars,
                   pipelineVars>>

\* lines 25-28: Promise.all of savePodcasts and saveBookmarks; the database
\* runs the statement one of the two awaits, the statements of the two calls
\* in any order. A statement that rejects is not applied and rejects its
\* call: there is no catch, Promise.all rejects and syncPodcasts throws,
\* while the statements of the other call still run.
SyncPodcastsSave(which) ==
    /\ sends.pc = "save" \/ (sends.pc = "failed" /\ sends.threw = "save")
    /\ LET list == IF which = "podcasts" THEN sends.podcastList[1] ELSE sends.bookmarkList[1]
           stage == sends.save[which]
           saved == IF NextSaveStage(stage) = "done" THEN sends.saved \cup {which}
                    ELSE sends.saved
           log == IF stage = FirstSaveStage(list)
                  THEN Append(sends.log, IF which = "podcasts" THEN "savePodcasts"
                                         ELSE "saveBookmarks")
                  ELSE sends.log
       IN  /\ stage \notin {"none", "done", "rejected"}
           /\ \/ /\ podcasts' = IF which = "podcasts"
                                THEN SaveStatement(podcasts, list, stage, now) ELSE podcasts
                 /\ bookmarks' = IF which = "bookmarks"
                                 THEN BookmarkStatement(bookmarks, list, stage, now)
                                 ELSE bookmarks
                 /\ sends' = [sends EXCEPT
                        !.save[which] = NextSaveStage(stage),
                        !.saved = saved,
                        !.log = log,
                        !.pc = IF sends.pc = "failed" THEN "failed"
                               ELSE IF saved = {"podcasts", "bookmarks"}
                               THEN Stage1After("save")
                               ELSE "save"]
              \/ /\ UNCHANGED <<podcasts, bookmarks>>
                 /\ sends' = [sends EXCEPT !.save[which] = "rejected", !.log = log,
                                           !.pc = "failed", !.threw = "save"]
    /\ UNCHANGED <<http, batch, call, remote, scan, now, lastRemote, trip, lastTotal, repeated,
                   episodes, playedAtVars, pipelineVars>>

\* lines 30-31; when the awaited resetBackupProgress rejects the counter is
\* as it was and syncPodcasts throws
SyncPodcastsResetProgress ==
    /\ sends.pc = "reset"
    /\ LET total == Len(sends.podcastList[1])
       IN  \/ /\ progress' = resetBackupProgress(total)
              /\ sends' = [sends EXCEPT !.total = <<total>>,
                                        !.log = Append(@, "resetBackupProgress"),
                                        !.pc = Stage1After("reset")]
              /\ runPodcasts' = ActiveUuids(sends.podcastList[1])
              /\ classified' = {}
           \/ /\ sends' = [sends EXCEPT !.log = Append(@, "resetBackupProgress"),
                                        !.pc = "failed", !.threw = "reset"]
              /\ UNCHANGED <<progress, runPodcasts, classified>>
    /\ UNCHANGED <<http, batch, call, remote, scan, reconcileVars, episodes, playedAtVars,
                   queue, units, historySent, historyRuns, triggers, redelivered>>

\* lines 33-46, one turn of the loop: sendBatch(messages.slice(i, i + 100));
\* when the awaited sendBatch rejects none of its messages is enqueued, the
\* batches sent before stay enqueued and syncPodcasts throws
SyncPodcastsSendBatch ==
    /\ sends.pc = "send"
    /\ LET messages == SyncPodcastMessages(sends.token, sends.podcastList[1])
           slice == Slice(messages, sends.i, sends.i + BatchLimit)
       IN  /\ sends.i < Len(messages)
           /\ \/ /\ sends' = [sends EXCEPT !.messages = messages,
                                           !.i = @ + BatchLimit,
                                           !.batches = Append(@, slice),
                                           !.log = Append(@, "sendBatch")]
                 /\ LET sent == sends'.batches[Len(sends'.batches)]
                    IN  queue' = [queue EXCEPT !.podcast = [p \in DOMAIN queue.podcast |->
                                    queue.podcast[p]
                                      + Cardinality({k \in DOMAIN sent :
                                                        sent[k].podcastUuid = p})]]
              \/ /\ sends' = [sends EXCEPT !.messages = messages,
                                           !.log = Append(@, "sendBatch"),
                                           !.pc = "failed", !.threw = "send"]
                 /\ UNCHANGED queue
    /\ UNCHANGED <<http, batch, call, remote, scan, reconcileVars, episodes, playedAtVars,
                   progress, units, runPodcasts, classified, historySent, historyRuns,
                   triggers, redelivered>>

\* lines 44 and 48: the loop's condition fails and syncPodcasts goes on
SyncPodcastsLoopEnd ==
    /\ sends.pc = "send"
    /\ LET messages == SyncPodcastMessages(sends.token, sends.podcastList[1])
       IN  /\ ~(sends.i < Len(messages))
           /\ sends' = [sends EXCEPT !.messages = messages, !.pc = Stage1After("send")]
    /\ UNCHANGED <<http, batch, call, remote, scan, reconcileVars, episodes, playedAtVars,
                   pipelineVars>>

\* the podcasts, bookmarks and counter an earlier backup of p1, p2 and b1
\* left, or those of a new deployment
Stage1Stores ==
    { [podcasts |-> EmptyTable, bookmarks |-> EmptyTable,
       progress |-> [completed |-> 0, total |-> 0]],
      [podcasts |-> savePodcasts(EmptyTable, <<[uuid |-> "p1", title |-> "t1"],
                                              [uuid |-> "p2", title |-> "t1"]>>, 1),
       bookmarks |-> saveBookmarks(EmptyTable, <<[uuid |-> "b1", title |-> "t1"]>>, 1),
       progress |-> [completed |-> 2, total |-> 2]] }

InitStage1 ==
    /\ \E store \in Stage1Stores :
          /\ podcasts = store.podcasts
          /\ bookmarks = store.bookmarks
          /\ progress = store.progress
    /\ now = 2
    /\ lastRemote = [podcasts |-> <<>>, bookmarks |-> <<>>]
    /\ trip = [podcasts |-> [u \in PodcastIds |-> 0], bookmarks |-> [u \in BookmarkIds |-> 0]]
    /\ lastTotal = [podcasts |-> 0, bookmarks |-> 0]
    /\ repeated = [podcasts |-> NULL, bookmarks |-> NULL]
    /\ episodes \in StoredBefore
    /\ lastCall = <<>>
    /\ lastResult = [updated |-> 0, skipped |-> 0]
    /\ queue = [podcasts |-> 0, podcast |-> [p \in PodcastIds |-> 0], history |-> 0]
    /\ units = [w \in Workers |-> Idle]
    /\ runPodcasts = {}
    /\ classified = {}
    /\ historySent = 0
    /\ historyRuns = 0
    /\ triggers = 0
    /\ redelivered = 0
    /\ scan = NoScan
    /\ call = NoCall
    /\ http = NoHttp
    /\ batch = NoBatch
    /\ sends = NoSends
    /\ remote = NoRemote

\* one run: syncPodcasts statement by statement, then the units and stage 3
NextStage1 ==
    \/ Trigger
    \/ SyncPodcastsLogin
    \/ SyncPodcastsFetch(RemotePodcastLists, RemoteBookmarkLists)
    \/ \E which \in {"podcasts", "bookmarks"} : SyncPodcastsSave(which)
    \/ SyncPodcastsResetProgress
    \/ SyncPodcastsSendBatch
    \/ SyncPodcastsLoopEnd
    \/ \E w \in Workers : Stage2(w)
    \/ SyncHistory

SpecStage1 == InitStage1 /\ [][NextStage1]_vars

\* the queue delivers every waiting message and a started handler runs on
FairSpecStage1 == SpecStage1 /\ WF_vars(NextStage1)

(***************************************************************************)
(* syncPodcasts over remote lists long enough for several batches          *)
(***************************************************************************)
\* remote lists of n podcasts, the k-th with uuid k
LongPodcastLists ==
    {[k \in 1..n |-> [uuid |-> k, title |-> "t1"]] : n \in 0..MaxMessages}

InitSendBatch ==
    /\ podcasts = EmptyTable
    /\ bookmarks = EmptyTable
    /\ progress = [completed |-> 0, total |-> 0]
    /\ now = 1
    /\ lastRemote = [podcasts |-> <<>>, bookmarks |-> <<>>]
    /\ trip = [podcasts |-> [u \in PodcastIds |-> 0], bookmarks |-> [u \in BookmarkIds |-> 0]]
    /\ lastTotal = [podcasts |-> 0, bookmarks |-> 0]
    /\ repeated = [podcasts |-> NULL, bookmarks |-> NULL]
    /\ episodes = NoEpisodes
    /\ lastCall = <<>>
    /\ lastResult = [updated |-> 0, skipped |-> 0]
    /\ queue = [podcasts |-> 0, podcast |-> [p \in 1..MaxMessages |-> 0], history |-> 0]
    /\ units = [w \in Workers |-> Idle]
    /\ runPodcasts = {}
    /\ classified = {}
    /\ historySent = 0
    /\ historyRuns = 0
    /\ triggers = 0
    /\ redelivered = 0
    /\ scan = NoScan
    /\ call = NoCall
    /\ http = NoHttp
    /\ batch = NoBatch
    /\ sends = NoSends
    /\ remote = NoRemote

NextSendBatch ==
    \/ Trigger
    \/ SyncPodcastsLogin
    \/ SyncPodcastsFetch(LongPodcastLists, RemoteBookmarkLists)
    \/ \E which \in {"podcasts", "bookmarks"} : SyncPodcastsSave(which)
    \/ SyncPodcastsResetProgress
    \/ SyncPodcastsSendBatch
    \/ SyncPodcastsLoopEnd

SpecSendBatch == InitSendBatch /\ [][NextSendBatch]_vars

(***************************************************************************)
(* The stage-2 units of one run with failing fetches and store writes      *)
(***************************************************************************)
\* processPodcastEpisodes, lines 89-92, with either fetch failing
SyncPodcastFetch(w) ==
    /\ units[w].pc = "idle"
    /\ FirstIdle(w)
    /\ \E p \in PodcastIds :
          /\ queue.podcast[p] > 0
          /\ queue' = [queue EXCEPT !.podcast[p] = @ - 1]
          /\ \E resS \in ResponsesOf({remote.sync[p]}),
                resC \in ResponsesOf({AccountCacheData(p)}) :
                LET outS == getEpisodeSyncData(p, resS)
                    outC == getPodcastEpisodeMetadata(p, resC)
                    unit == [Idle EXCEPT !.podcast = p, !.oks = <<resS.ok, resC.ok>>]
                IN  units' = [units EXCEPT ![w] =
                        IF outS.threw \/ outC.threw
                        THEN [unit EXCEPT !.pc = "failed", !.threw = "fetch"]
                        ELSE [unit EXCEPT !.pc = "count",
                                          !.sync = outS.value[1],
                                          !.cache = outC.value[1].episodes,
                                          !.count = outC.value[1].episode_count]]
    /\ UNCHANGED <<edgeVars, call, remote, scan, reconcileVars, episodes, playedAtVars, progress,
                   runPodcasts, classified, historySent, historyRuns, triggers, redelivered>>

\* src/src/index.tsx 157: handleQueueMessage rejected, so queue() rejects
\* before msg.ack() of line 158; a handler started for a message outside a
\* batch leaves the batch alone
HandlerThrew(b) ==
    IF b.next \in DOMAIN b.messages
    THEN [b EXCEPT !.acked = AckedAfter(@, b.next, TRUE), !.threw = TRUE]
    ELSE b

\* an awaited store call of syncPodcast throws: updatePodcastEpisodeCount
\* (line 94), getExistingEpisodeUuids (106), updateEpisodeSyncData (125-128),
\* insertNewEpisodes (166-168) or incrementBackupProgress (64). A write was
\* applied or was not when its call rejects; the existence check writes
\* nothing. processPodcastEpisodes has returned when the increment is called.
\* syncPodcast has no try/catch: the handler throws.
StoreCallThrows(w) ==
    /\ units[w].pc \in {"count", "exists", "update", "insert", "increment"}
    /\ podcasts' \in IF units[w].pc = "count"
                     THEN {podcasts, updatePodcastEpisodeCount(podcasts, units[w].podcast,
                                                               units[w].count)}
                     ELSE {podcasts}
    /\ episodes' \in IF units[w].pc = "update"
                     THEN {episodes, updateEpisodeSyncData(episodes, units[w].toUpdate)}
                     ELSE IF units[w].pc = "insert"
                     THEN {episodes}
                              \cup {insertNewEpisodes(episodes, units[w].toInsert, upsert) :
                                       upsert \in UpsertKinds}
                     ELSE {episodes}
    /\ progress' \in IF units[w].pc = "increment"
                     THEN {progress, incrementBackupProgress(progress)}
                     ELSE {progress}
    /\ classified' = IF units[w].pc = "increment"
                     THEN classified \cup {units[w].podcast}
                     ELSE classified
    /\ units' = [units EXCEPT ![w].pc = "failed", ![w].threw = units[w].pc]
    /\ batch' = HandlerThrew(batch)
    /\ UNCHANGED <<http, sends, call, remote, scan, bookmarks, now, lastRemote, trip, lastTotal,
                   repeated, playedAtVars, runPodcasts, historySent, historyRuns, triggers>>

\* line 68 with BACKUP_QUEUE.send rejecting: no message is enqueued
SendThrows(w) ==
    /\ units[w].pc = "send"
    /\ units' = [units EXCEPT ![w].pc = "failed", ![w].threw = "send"]
    /\ batch' = HandlerThrew(batch)
    /\ UNCHANGED <<http, sends, call, remote, scan, reconcileVars, episodes, playedAtVars,
                   progress, runPodcasts, classified, historySent, historyRuns, triggers>>

\* a store call of the unit throws; the message stays with the failed unit
\* until the queue delivers it again
SyncPodcastWriteFails(w) == StoreCallThrows(w) /\ UNCHANGED <<queue, redelivered>>

SyncPodcastSendFails(w) == SendThrows(w) /\ UNCHANGED <<queue, redelivered>>

\* the consumer did not acknowledge the message of a failed unit: the queue
\* delivers it again
FailedRedeliver(w) ==
    /\ units[w].pc = "failed"
    /\ redelivered < MaxRedeliver
    /\ redelivered' = redelivered + 1
    /\ queue' = [queue EXCEPT !.podcast[units[w].podcast] = @ + 1]
    /\ units' = [units EXCEPT ![w] = Idle]
    /\ UNCHANGED <<edgeVars, call, remote, scan, reconcileVars, episodes, playedAtVars, progress,
                   runPodcasts, classified, historySent, historyRuns, triggers>>

NextUnitFailure ==
    \E w \in Workers :
        \/ SyncPodcastFetch(w) \/ UnitSteps(w) \/ SyncPodcastWriteFails(w)
        \/ SyncPodcastSendFails(w) \/ FailedRedeliver(w)

SpecUnitFailure == InitUnits /\ [][NextUnitFailure]_vars

(***************************************************************************)
(* The queue consumer: src/src/index.tsx queue(batch, env)                 *)
(***************************************************************************)
\* the bodies of the messages of BACKUP_QUEUE
QueueMessages ==
    {[type |-> "sync-podcasts", podcastUuid |-> ""], [type |-> "sync-history", podcastUuid |-> ""]}
    \cup {[type |-> "sync-podcast", podcastUuid |-> p] : p \in PodcastIds}

\* the messages of a body waiting in the queue
Waiting(q, body) ==
    IF body.type = "sync-podcasts" THEN q.podcasts
    ELSE IF body.type = "sync-history" THEN q.history
    ELSE q.podcast[body.podcastUuid]

Occurrences(body, messages) == Cardinality({i \in DOMAIN messages : messages[i] = body})

\* the batches the queue can deliver: waiting messages, in any order
DeliverableBatches(q) ==
    {messages \in SeqUpTo(QueueMessages, MaxBatch) :
        /\ messages # <<>>
        /\ \A i \in DOMAIN messages : Occurrences(messages[i], messages) <= Waiting(q, messages[i])}

\* the queue hands a batch of waiting messages to queue(batch, env); a
\* message leaves the queue when its handler starts
ConsumerDeliver ==
    /\ batch.next = 0
    /\ \A w \in Workers : units[w].pc = "idle"
    /\ \E messages \in DeliverableBatches(queue) :
          batch' = [NoBatch EXCEPT !.messages = messages, !.next = 1]
    /\ UNCHANGED <<http, sends, call, remote, scan, reconcileVars, episodes, playedAtVars,
                   pipelineVars>>

\* handleQueueMessage, the switch on message.type: the handler of the
\* message starts on consumer w, against the account
handleQueueMessage(w, message) ==
    \/ message.type = "sync-podcasts" /\ AccountSyncPodcastsStart(w)
    \/ /\ message.type = "sync-podcast"
       /\ AccountClassifyStart(w)
       /\ units'[w].podcast = message.podcastUuid
    \/ message.type = "sync-history" /\ AccountSyncHistory

\* src/src/index.tsx 156-157, one turn of the loop: the handler of the message
\* at batch.next is called
ConsumerHandle ==
    /\ batch.next \in DOMAIN batch.messages
    /\ ~batch.threw
    /\ units["w1"].pc = "idle"
    /\ handleQueueMessage("w1", batch.messages[batch.next])

\* syncPodcasts, lines 25-28: an awaited statement of one of the two
\* reconciliations rejects without being applied. Promise.all rejects at once
\* and syncPodcasts throws; the other reconciliation is left running.
ReconcileThrows(w) ==
    /\ units[w].pc = "save"
    /\ \E which \in DOMAIN units[w].save :
          /\ units[w].save[which] \notin {"none", "done", "rejected"}
          /\ units' = [units EXCEPT ![w].save[which] = "rejected",
                                    ![w].pc = "failed", ![w].threw = "save"]
    /\ batch' = HandlerThrew(batch)
    /\ UNCHANGED <<http, sends, call, remote, scan, reconcileVars, episodes, playedAtVars,
                   progress, runPodcasts, classified, historySent, historyRuns, triggers>>

\* the reconciliation Promise.all left running goes on after syncPodcasts
\* threw: its next statement is applied, or rejects
ReconcileSibling(w) ==
    /\ units[w].pc = "failed"
    /\ units[w].threw = "save"
    /\ \E which \in DOMAIN units[w].save :
          LET stage == units[w].save[which]
          IN  /\ stage \notin {"none", "done", "rejected"}
              /\ \/ /\ podcasts' = IF which = "podcasts"
                                   THEN SaveStatement(podcasts, units[w].list, stage, now)
                                   ELSE podcasts
                    /\ bookmarks' = IF which = "bookmarks"
                                    THEN BookmarkStatement(bookmarks, units[w].marks, stage, now)
                                    ELSE bookmarks
                    /\ units' = [units EXCEPT ![w].save[which] = NextSaveStage(stage)]
                 \/ /\ UNCHANGED <<podcasts, bookmarks>>
                    /\ units' = [units EXCEPT ![w].save[which] = "rejected"]
    /\ UNCHANGED <<edgeVars, call, remote, scan, now, lastRemote, trip, lastTotal, repeated,
                   episodes, playedAtVars, pipelineVarsButUnits>>

\* syncPodcasts, line 31: resetBackupProgress rejects, the counter as it was
ResetThrows(w) ==
    /\ units[w].pc = "reset"
    /\ units' = [units EXCEPT ![w].pc = "failed", ![w].threw = "reset"]
    /\ batch' = HandlerThrew(batch)
    /\ UNCHANGED <<http, sends, call, remote, scan, reconcileVars, episodes, playedAtVars,
                   progress, runPodcasts, classified, historySent, historyRuns, triggers>>

\* syncPodcasts, line 45: sendBatch rejects, none of its messages enqueued
EnqueueThrows(w) ==
    /\ units[w].pc = "enqueue"
    /\ units' = [units EXCEPT ![w].pc = "failed", ![w].threw = "enqueue"]
    /\ batch' = HandlerThrew(batch)
    /\ UNCHANGED <<http, sends, call, remote, scan, reconcileVars, episodes, playedAtVars,
                   progress, runPodcasts, classified, historySent, historyRuns, triggers>>

\* syncHistory: updateEpisodePlayedAt rejects after the statements of some of
\* its candidates were applied
HistoryThrows(histories) ==
    /\ \E history \in histories, n \in 0..MaxCandidates :
          /\ n <= Len(history)
          /\ episodes' = updateEpisodePlayedAt(episodes, SubSeq(history, 1, n)).table
    /\ batch' = HandlerThrew(batch)
    /\ UNCHANGED <<http, sends, call, remote, scan, reconcileVars, playedAtVars, progress,
                   units, runPodcasts, classified, historySent, historyRuns, triggers>>

\* the queue with one more message of that body waiting
WaitingAgain(q, body) ==
    IF body.type = "sync-podcasts" THEN [q EXCEPT !.podcasts = @ + 1]
    ELSE IF body.type = "sync-history" THEN [q EXCEPT !.history = @ + 1]
    ELSE [q EXCEPT !.podcast[body.podcastUuid] = @ + 1]

\* src/src/index.tsx 157: handleQueueMessage rejects and queue() with it. The
\* handler throws on its first remote request (login or a fetch), before its
\* message was taken, or at a later awaited call of syncPodcasts, syncPodcast
\* or syncHistory; the message it was handling waits in the queue again.
ConsumerHandlerThrows ==
    /\ batch.next \in DOMAIN batch.messages
    /\ ~batch.threw
    /\ redelivered < MaxRedeliver
    /\ redelivered' = redelivered + 1
    /\ \/ /\ units["w1"].pc = "idle"
          /\ batch' = HandlerThrew(batch)
          /\ UNCHANGED <<http, sends, call, remote, scan, reconcileVars, episodes,
                         playedAtVars, progress, queue, units, runPodcasts, classified,
                         historySent, historyRuns, triggers>>
       \/ /\ \/ ReconcileThrows("w1") \/ ResetThrows("w1") \/ EnqueueThrows("w1")
             \/ StoreCallThrows("w1") \/ SendThrows("w1")
          /\ queue' = WaitingAgain(queue, batch.messages[batch.next])
       \/ /\ units["w1"].pc = "idle"
          /\ batch.messages[batch.next].type = "sync-history"
          /\ HistoryThrows({remote.history})
          /\ UNCHANGED queue

\* the statements of the handler the loop awaits, and those of the
\* reconciliation a rejected Promise.all left running
ConsumerHandlerStep ==
    SyncPodcastsReconcile("w1") \/ SyncPodcastsReset("w1") \/ SyncPodcastsEnqueue("w1")
        \/ UnitSteps("w1") \/ ReconcileSibling("w1")

\* queue() returned or rejected and the invocation ends, with what a
\* rejected handler left running; the messages not acknowledged stay in the
\* queue for redelivery
ConsumerEnd ==
    /\ batch.next > 0
    /\ batch.threw \/ batch.next > Len(batch.messages)
    /\ batch' = NoBatch
    /\ units' = [units EXCEPT !["w1"] = Idle]
    /\ UNCHANGED <<http, sends, call, remote, scan, reconcileVars, episodes, playedAtVars,
                   pipelineVarsButUnits>>

\* two triggers against one account, every message handled by queue()
NextConsumer ==
    \/ TriggerOverlap
    \/ ConsumerDeliver \/ ConsumerHandle \/ ConsumerHandlerThrows \/ ConsumerHandlerStep
    \/ ConsumerEnd

SpecConsumer == InitOverlap /\ [][NextConsumer]_vars

(***************************************************************************)
(* Calls of savePodcasts that overlap                                      *)
(***************************************************************************)
NextInterleaved ==
    \/ Tick
    \/ SavePassStart("podcasts", FALSE)
    \/ \E w \in Workers : SavePassStatement(w)

SpecInterleaved == Init /\ [][NextInterleaved]_vars

(***************************************************************************)
(* Fairness: the queue delivers every waiting message and a started        *)
(* handler runs to its end                                                 *)
(***************************************************************************)
FairSpecOnce ==
    /\ SpecOnce
    /\ WF_vars(\E w \in Workers : Stage1(w))
    /\ WF_vars(\E w \in Workers : Stage2(w))
    /\ WF_vars(SyncHistory)

(***************************************************************************)
(* Properties                                                              *)
(***************************************************************************)

\* no handler in progress and no stage-1 or stage-2 message waiting
PipelineQuiet ==
    /\ \A w \in Workers : units[w].pc = "idle"
    /\ queue.podcasts = 0
    /\ \A p \in PodcastIds : queue.podcast[p] = 0

\* C1: over any sequence of updateEpisodePlayedAt calls, a stored played_at
\* that is non-null stays non-null and never decreases.
C1_PlayedAtMonotone ==
    [][\A u \in DOMAIN episodes :
          episodes[u].played_at # NULL =>
              /\ u \in DOMAIN episodes'
              /\ episodes'[u].played_at # NULL
              /\ episodes'[u].played_at >= episodes[u].played_at]_vars

\* an older candidate arrived after a newer one was stored, and was skipped
C1_Witness ==
    /\ lastResult.skipped > 0
    /\ \E i \in DOMAIN lastCall :
          /\ lastCall[i].uuid \in DOMAIN episodes
          /\ episodes[lastCall[i].uuid].played_at > lastCall[i].played_at

\* the uuids of the insert batch of the unit on w
InsertedBy(w) == {units[w].toInsert[i].uuid : i \in DOMAIN units[w].toInsert}

\* C2 is not settled here: whether an insert keeps the played_at of a stored
\* row is the upsert's choice, which the sources do not fix (UpsertKinds).
\* What holds under either upsert: in the pipeline with redelivered and
\* concurrent stage-2 units and stage-3 executions, every step but the
\* insert batch of a unit keeps a non-null played_at and never moves it
\* earlier (the update path and the history update among them), and the
\* insert batch does so for every row outside the batch.
PlayedAtKeptButByInsert ==
    [][\A u \in DOMAIN episodes :
          LET before == episodes[u].played_at
          IN  before # NULL =>
                \/ (u \in DOMAIN episodes' /\ ~(episodes'[u].played_at < before)
                                            /\ ~(episodes'[u].played_at = NULL))
                \/ \E w \in Workers :
                      /\ units[w].pc = "insert"
                      /\ units'[w].pc = "increment"
                      /\ u \in InsertedBy(w)]_vars

\* a unit's insert batch has upserted a stored row whose played_at was set
\* and has kept it: the upsert was an updating one
InsertHitsPlayedRow ==
    \E w \in Workers :
        /\ units[w].pc = "increment"
        /\ units[w].hit
        /\ \E i \in DOMAIN units[w].toInsert :
              episodes[units[w].toInsert[i].uuid].played_at # NULL

\* the same with a replacing upsert: the row's played_at is NULL again
InsertResetsPlayedRow ==
    \E w \in Workers :
        /\ units[w].pc = "increment"
        /\ units[w].hit
        /\ \E i \in DOMAIN units[w].toInsert :
              episodes[units[w].toInsert[i].uuid].played_at = NULL

\* C3: one run with N >= 1 podcasts, every unit delivered exactly once, in
\* any order and overlap: at most one sync-history message is ever enqueued,
\* and exactly one once every unit has finished.
C3_ExactlyOneHistoryMessage ==
    /\ historySent <= 1
    /\ (triggers = 1 /\ PipelineQuiet /\ runPodcasts # {}) => historySent = 1

\* both podcasts of a two-podcast run have finished and one message was sent
C3_Witness ==
    /\ runPodcasts = PodcastIds
    /\ classified = PodcastIds
    /\ PipelineQuiet
    /\ progress.completed = 2
    /\ historySent = 1

\* C4: with sync-podcast messages redelivered, a run still enqueues at most
\* one sync-history message.
C4_OnceUnderRedelivery == historySent <= 1

\* C5: a sync-history message is enqueued only after the classifier has
\* completed for every podcast of the run.
C5_HistoryAfterAllClassified == historySent > 0 => runPodcasts \subseteq classified

\* C6: once a run with N >= 1 podcasts has reset the counter, a sync-history
\* message is eventually enqueued and stage 3 eventually runs, provided
\* messages are delivered and handlers complete.
C6_HistoryEventuallyRuns ==
    (runPodcasts # {}) ~> (historySent > 0 /\ historyRuns > 0)

\* the run of two podcasts has reached stage 3
C6_Witness ==
    /\ runPodcasts = PodcastIds
    /\ historySent > 0
    /\ historyRuns > 0

\* a call on the table returns in this step
Returns(which) ==
    \E w \in Workers : units[w].pc = "pass" /\ units[w].save[which] = "count"
                           /\ units'[w].pc = "idle"

\* C7: after any sequence of passes that do not overlap, whenever no pass is
\* in progress on a table, a stored row's deleted_at is null iff its id was
\* in the remote set of the latest pass over that table.
C7_DeletedAtReflectsLatestPass ==
    /\ (lastRemote.podcasts # <<>> /\ ~InPass("podcasts")) =>
          /\ lastRemote.podcasts[1] \subseteq DOMAIN podcasts
          /\ \A u \in DOMAIN podcasts :
                (podcasts[u].deleted_at = NULL) <=> (u \in lastRemote.podcasts[1])
    /\ (lastRemote.bookmarks # <<>> /\ ~InPass("bookmarks")) =>
          /\ lastRemote.bookmarks[1] \subseteq DOMAIN bookmarks
          /\ \A u \in DOMAIN bookmarks :
                (bookmarks[u].deleted_at = NULL) <=> (u \in lastRemote.bookmarks[1])

\* the latest pass kept p1 and omitted the stored p2, and has returned
C7_Witness ==
    /\ lastRemote.podcasts = <<{"p1"}>>
    /\ ~InPass("podcasts")
    /\ DOMAIN podcasts = PodcastIds
    /\ podcasts["p1"].deleted_at = NULL
    /\ podcasts["p2"].deleted_at # NULL

\* C8: present, then absent, then present: the row is stored throughout, and
\* between passes its deleted_at is non-null after the second pass and null
\* after the third.
TripHolds(table, t, between) ==
    \A u \in DOMAIN t :
        /\ t[u] > 0 => u \in DOMAIN table
        /\ (between /\ t[u] = 1) => table[u].deleted_at = NULL
        /\ (between /\ t[u] = 2) => table[u].deleted_at # NULL
        /\ (between /\ t[u] = 3) => table[u].deleted_at = NULL

C8_SoftDeleteRoundTrip ==
    /\ TripHolds(podcasts, trip.podcasts, ~InPass("podcasts"))
    /\ TripHolds(bookmarks, trip.bookmarks, ~InPass("bookmarks"))

\* p2 and b2 have each been present, absent and present again
C8_Witness ==
    /\ trip.podcasts["p2"] = 3
    /\ trip.bookmarks["b2"] = 3
    /\ ~InPass("podcasts")
    /\ podcasts["p2"].deleted_at = NULL

\* C9: every statement of a pass with the remote ids of the pass before it
\* leaves every row's deleted_at as it was; a soft-deleted row keeps its
\* first timestamp.
SameDeletedAt(before, after) ==
    \A u \in DOMAIN before :
        u \in DOMAIN after /\ after[u].deleted_at = before[u].deleted_at

\* a pass in progress on the table has the remote ids of the pass before it
Repeats(which) ==
    \E w \in Workers :
        /\ units[w].pc = "pass"
        /\ units[w].save[which] \notin {"none", "done"}
        /\ lastRemote[which] = <<ActiveUuids(SaveList(units[w], which))>>

C9_ReconcileIdempotent ==
    [][/\ Repeats("podcasts") => SameDeletedAt(podcasts, podcasts')
       /\ Repeats("bookmarks") => SameDeletedAt(bookmarks, bookmarks')]_vars

\* the same ids were applied twice, the second time after the clock moved on,
\* and p2 still carries the timestamp of its first soft delete
C9_Witness ==
    /\ repeated.podcasts # NULL
    /\ ~InPass("podcasts")
    /\ "p2" \in DOMAIN podcasts
    /\ podcasts["p2"].deleted_at # NULL
    /\ podcasts["p2"].deleted_at < repeated.podcasts

\* a call with an empty list is in progress on the table
EmptyPass(which) ==
    \E w \in Workers :
        /\ units[w].pc = "pass"
        /\ units[w].save[which] \notin {"none", "done"}
        /\ SaveList(units[w], which) = <<>>

\* C10: a pass with an empty remote set removes no row, and when it returns
\* every stored row has a non-null deleted_at.
C10_EmptySetDeletesAll ==
    [][/\ EmptyPass("podcasts") => DOMAIN podcasts \subseteq DOMAIN podcasts'
       /\ (EmptyPass("podcasts") /\ Returns("podcasts")) =>
            \A u \in DOMAIN podcasts' : podcasts'[u].deleted_at # NULL
       /\ EmptyPass("bookmarks") => DOMAIN bookmarks \subseteq DOMAIN bookmarks'
       /\ (EmptyPass("bookmarks") /\ Returns("bookmarks")) =>
            \A u \in DOMAIN bookmarks' : bookmarks'[u].deleted_at # NULL]_vars

\* an empty pass has returned and both stored podcasts are soft-deleted
C10_Witness ==
    /\ lastRemote.podcasts = <<{}>>
    /\ ~InPass("podcasts")
    /\ DOMAIN podcasts = PodcastIds
    /\ \A u \in PodcastIds : podcasts[u].deleted_at # NULL

\* C11: no statement of a pass removes a row, and the total a pass returns is
\* the number of stored rows, soft-deleted ones included.
C11_RowsNeverRemoved ==
    [][/\ DOMAIN podcasts \subseteq DOMAIN podcasts'
       /\ DOMAIN bookmarks \subseteq DOMAIN bookmarks'
       /\ Returns("podcasts") =>
            lastTotal'.podcasts =
              Cardinality({u \in PodcastIds : u \in DOMAIN podcasts' /\ podcasts'[u].deleted_at = NULL})
            + Cardinality({u \in PodcastIds : u \in DOMAIN podcasts' /\ podcasts'[u].deleted_at # NULL})
       /\ Returns("bookmarks") =>
            lastTotal'.bookmarks =
              Cardinality({u \in BookmarkIds : u \in DOMAIN bookmarks' /\ bookmarks'[u].deleted_at = NULL})
            + Cardinality({u \in BookmarkIds : u \in DOMAIN bookmarks' /\ bookmarks'[u].deleted_at # NULL})]_vars

\* a pass that soft-deleted p2 returned a total of 2
C11_Witness ==
    /\ lastRemote.podcasts = <<{"p1"}>>
    /\ ~InPass("podcasts")
    /\ lastTotal.podcasts = 2
    /\ "p2" \in DOMAIN podcasts
    /\ podcasts["p2"].deleted_at # NULL

\* C12 is not settled here. saveBookmarks has no code among the sources;
\* BookmarkStatement above is written from the specification's description
\* of the reconciler, the same description savePodcasts implements, so a
\* side-by-side run of the two would compare that description with itself.
\* src/test/db.test.ts 666-723 exercises saveBookmarks on four scenarios
\* (insert, upsert, mark missing, restore), each with the outcome of the
\* savePodcasts scenario of lines 559-629.

\* C13: a call with one candidate T' for a stored episode with played_at T:
\* T' <= T is skipped and T stays; T' > T, or T null, is updated and T' stored.
C13_PerCandidateOutcome ==
    [][(Len(lastCall') = 1 /\ lastCall'[1].uuid \in DOMAIN episodes) =>
          LET c == lastCall'[1]
              T == episodes[c.uuid].played_at
          IN  IF T # NULL /\ c.played_at <= T
              THEN /\ lastResult' = [updated |-> 0, skipped |-> 1]
                   /\ episodes' = episodes
              ELSE /\ lastResult' = [updated |-> 1, skipped |-> 0]
                   /\ episodes'[c.uuid].played_at = c.played_at]_vars

\* a candidate equal to the stored played_at was skipped
C13_Witness ==
    /\ Len(lastCall) = 1
    /\ lastResult = [updated |-> 0, skipped |-> 1]
    /\ lastCall[1].uuid \in DOMAIN episodes
    /\ episodes[lastCall[1].uuid].played_at = lastCall[1].played_at

\* C14: a call stores no new episode id, and every candidate whose id is not
\* stored is counted as skipped, none as updated.
C14_NeverCreatesRows ==
    [][/\ DOMAIN episodes' = DOMAIN episodes
       /\ lastResult'.skipped >=
              Cardinality({i \in DOMAIN lastCall' : lastCall'[i].uuid \notin DOMAIN episodes})
       /\ lastResult'.updated <=
              Cardinality({i \in DOMAIN lastCall' : lastCall'[i].uuid \in DOMAIN episodes})]_vars

\* the only candidate of a call named an id that is not stored and was skipped
C14_Witness ==
    /\ Len(lastCall) = 1
    /\ lastCall[1].uuid \notin DOMAIN episodes
    /\ lastResult = [updated |-> 0, skipped |-> 1]

\* C15: for candidates with distinct ids updated + skipped is their number;
\* the empty list gives {0, 0} and issues no store statement.
C15_ResultCoversCandidates ==
    [][/\ HasDistinctUuids(lastCall') =>
              lastResult'.updated + lastResult'.skipped = Len(lastCall')
       /\ lastCall' = <<>> =>
              /\ lastResult' = [updated |-> 0, skipped |-> 0]
              /\ updateEpisodePlayedAt(episodes, lastCall').statements = 0
              /\ episodes' = episodes]_vars

\* a call with two distinct ids updated one and skipped the other
C15_Witness ==
    /\ Len(lastCall) = 2
    /\ HasDistinctUuids(lastCall)
    /\ lastResult = [updated |-> 1, skipped |-> 1]

\* the change list of the full response a step has just received
ReceivedChanges(s) == ChangesOf(s.response[1])

\* a step of the scan that received a successful full response
MergedYear(before, after) ==
    /\ before.pc = "full"
    /\ after.pc \in {"count", "done"}

\* index of the first play record of an episode in a change list
FirstPlay(changes, episode) ==
    CHOOSE j \in DOMAIN changes :
        /\ changes[j].action = 1 /\ changes[j].episode = episode
        /\ \A k \in 1..(j - 1) : ~(changes[k].action = 1 /\ changes[k].episode = episode)

\* C16: once a count response reports 0 or no count for a year, the call has
\* ended; no full query was made for that year, no request for an older year,
\* and the result holds only episodes of the years scanned before it.
C16_ZeroCountStopsScan ==
    scan.zeroAt # <<>> =>
        /\ scan.pc = "done"
        /\ \A i \in DOMAIN scan.requests :
              \/ scan.requests[i].year > scan.zeroAt[1]
              \/ (scan.requests[i].year = scan.zeroAt[1] /\ scan.requests[i].count)
        /\ scan.entries = Entries(scan.seen)
        /\ {scan.entries[i].uuid : i \in DOMAIN scan.entries} \subseteq scan.played

\* the newest year had plays, the year before it reported a zero count
C16_Witness ==
    /\ scan.zeroAt = <<CurrentYear - 1>>
    /\ scan.pc = "done"
    /\ Len(scan.entries) > 0
    /\ Len(scan.requests) = 3

\* C17: the result has one entry per episode with a play record in a scanned
\* year; an entry is made in the first scanned year that has a play record of
\* the episode, from a record of that year, and no older year changes it.
C17_NewestYearWins ==
    [][/\ HasDistinctUuids(scan'.seen)
       /\ {scan'.seen[i].uuid : i \in DOMAIN scan'.seen} = scan'.played
       /\ MergedYear(scan, scan') =>
            /\ Len(scan'.seen) >= Len(scan.seen)
            /\ \A i \in DOMAIN scan.seen : scan'.seen[i] = scan.seen[i]
            /\ \A i \in (Len(scan.seen) + 1)..Len(scan'.seen) :
                  \E j \in DOMAIN ReceivedChanges(scan') :
                      /\ ReceivedChanges(scan')[j].episode = scan'.seen[i].uuid
                      /\ ReceivedChanges(scan')[j].modifiedAt = scan'.seen[i].modifiedAt
       /\ scan'.pc = "done" =>
            /\ Len(scan'.entries) = Len(scan'.seen)
            /\ \A i \in DOMAIN scan'.seen :
                  /\ scan'.entries[i].uuid = scan'.seen[i].uuid
                  /\ scan'.entries[i].played_at.iso = scan'.seen[i].modifiedAt]_vars

\* an older year returned one play record of an episode seen in a newer year
\* with another timestamp
C17_Witness ==
    /\ scan.pc \in {"count", "done"}
    /\ Len(scan.requests) >= 4
    /\ scan.response # <<>>
    /\ "changes" \in DOMAIN scan.response[1]
    /\ Len(ReceivedChanges(scan)) = 1
    /\ ReceivedChanges(scan)[1].action = 1
    /\ SeenHas(scan.seen, ReceivedChanges(scan)[1].episode)
    /\ SeenGet(scan.seen, ReceivedChanges(scan)[1].episode) # ReceivedChanges(scan)[1].modifiedAt

\* C18: every entry a year adds has an action 1 record in that year's
\* response with its episode id and its timestamp.
C18_OnlyPlayActions ==
    [][MergedYear(scan, scan') =>
          \A i \in DOMAIN scan'.seen :
              SeenHas(scan.seen, scan'.seen[i].uuid)
              \/ \E j \in DOMAIN ReceivedChanges(scan') :
                    /\ ReceivedChanges(scan')[j].action = 1
                    /\ ReceivedChanges(scan')[j].episode = scan'.seen[i].uuid
                    /\ ReceivedChanges(scan')[j].modifiedAt = scan'.seen[i].modifiedAt]_vars

\* the newest year returned a play record of e1 and a record with another
\* action for e2: only e1 is in the result
C18_Witness ==
    /\ scan.pc \in {"count", "done"}
    /\ Len(scan.requests) = 2
    /\ scan.response # <<>>
    /\ "changes" \in DOMAIN scan.response[1]
    /\ \E j \in DOMAIN ReceivedChanges(scan) :
          ReceivedChanges(scan)[j].action # 1 /\ ReceivedChanges(scan)[j].episode = "e2"
    /\ \E j \in DOMAIN ReceivedChanges(scan) :
          ReceivedChanges(scan)[j].action = 1 /\ ReceivedChanges(scan)[j].episode = "e1"
    /\ {scan.seen[i].uuid : i \in DOMAIN scan.seen} = {"e1"}

\* C19: an entry a year adds carries the modifiedAt of the first play record
\* of its episode in that year's list, and the added entries stand in the
\* order of those first records.
C19_FirstRecordOfYearWins ==
    [][MergedYear(scan, scan') =>
          LET changes == ReceivedChanges(scan')
              added == (Len(scan.seen) + 1)..Len(scan'.seen)
          IN  /\ \A i \in added :
                    scan'.seen[i].modifiedAt =
                        changes[FirstPlay(changes, scan'.seen[i].uuid)].modifiedAt
              /\ \A i, k \in added :
                    i < k => FirstPlay(changes, scan'.seen[i].uuid)
                               < FirstPlay(changes, scan'.seen[k].uuid)]_vars

\* one year returned two play records of an episode, the later one with the
\* greater modifiedAt, and the entry has the modifiedAt of the first
C19_Witness ==
    /\ scan.pc \in {"count", "done"}
    /\ Len(scan.requests) = 2
    /\ scan.response # <<>>
    /\ "changes" \in DOMAIN scan.response[1]
    /\ Len(ReceivedChanges(scan)) = 2
    /\ ReceivedChanges(scan)[1].action = 1 /\ ReceivedChanges(scan)[2].action = 1
    /\ ReceivedChanges(scan)[1].episode = ReceivedChanges(scan)[2].episode
    /\ ReceivedChanges(scan)[1].modifiedAt < ReceivedChanges(scan)[2].modifiedAt
    /\ Len(scan.seen) = 1
    /\ scan.seen[1].modifiedAt = ReceivedChanges(scan)[1].modifiedAt

\* C20: a successful full response without history.changes raises no error,
\* adds no entry, and the scan goes on with the next older year.
C20_MissingChangesContinue ==
    [][(/\ scan.pc = "full"
        /\ scan'.pc # "full"
        /\ scan'.response[1].ok
        /\ scan'.response[1].changes = <<>>) =>
          /\ scan'.pc # "failed"
          /\ scan'.error = <<>>
          /\ scan'.seen = scan.seen
          /\ scan.year > FirstYear => (scan'.pc = "count" /\ scan'.year = scan.year - 1)]_vars

\* the newest year's full response had no history.changes and the scan
\* stands at the count query of the year before it
C20_Witness ==
    /\ scan.pc = "count"
    /\ scan.year = CurrentYear - 1
    /\ Len(scan.requests) = 2
    /\ scan.response # <<>>
    /\ "changes" \in DOMAIN scan.response[1]
    /\ scan.response[1].ok
    /\ scan.response[1].changes = <<>>
    /\ scan.error = <<>>

\* C21: a non-success response to any request ends the call with an error
\* that carries the year of the request and the status, with no entries, and
\* the episodes table is changed only after a call that succeeded.
C21_FailureAbortsMerge ==
    [][/\ (scan'.response # <<>> /\ ~scan'.response[1].ok) =>
            /\ scan'.pc = "failed"
            /\ scan'.entries = <<>>
            /\ scan'.error = <<[year |-> scan'.requests[Len(scan'.requests)].year,
                                status |-> scan'.response[1].status]>>
            /\ episodes' = episodes
       /\ scan.pc = "failed" => episodes' = episodes
       /\ episodes' # episodes => (scan.pc = "done" /\ scan.response[1].ok)]_vars

\* the newest year gave a play record of the stored e1, then a request for
\* the year before it failed: nothing is returned and e1 keeps its played_at
C21_Witness ==
    /\ scan.pc = "failed"
    /\ Len(scan.requests) >= 3
    /\ SeenHas(scan.seen, "e1")
    /\ SeenGet(scan.seen, "e1") > 1
    /\ scan.entries = <<>>
    /\ scan.error # <<>>
    /\ scan.error[1].year < CurrentYear
    /\ "e1" \in DOMAIN episodes
    /\ episodes["e1"].played_at = 1

\* the unit's existence check returns and its batches are built in this step
ClassifiesUnit(w) == units[w].pc = "exists" /\ units'[w].pc # "exists"

\* the unit writes the episode count and filters its sync records in this step
FiltersUnit(w) == units[w].pc = "count" /\ units'[w].pc # "count"

\* a sync record without evidence of interaction
NoInteraction(r) == r.playingStatus <= 0 /\ r.playedUpTo <= 0

\* the uuids of a batch
BatchUuids(rows) == {rows[i].uuid : i \in DOMAIN rows}

\* C22: a sync record without interaction puts nothing in either batch; a
\* response without any interacted record makes the unit read and write no
\* episode row; a row is written only for a uuid with an interacted record.
C22_UninteractedIgnored ==
    [][/\ \A w \in Workers : FiltersUnit(w) =>
            /\ episodes' = episodes
            /\ (\A i \in DOMAIN units[w].sync : NoInteraction(units[w].sync[i])) =>
                  /\ ~units'[w].read
                  /\ units'[w].pc = "increment"
       /\ \A w \in Workers : ClassifiesUnit(w) =>
            LET sync == units[w].sync
                touched == BatchUuids(units'[w].toUpdate) \cup BatchUuids(units'[w].toInsert)
            IN  /\ \E i \in DOMAIN sync : ~NoInteraction(sync[i])
                /\ \A u \in touched :
                      \E i \in DOMAIN sync : sync[i].uuid = u /\ ~NoInteraction(sync[i])
       /\ \A w \in Workers :
            (\A i \in DOMAIN units[w].sync : NoInteraction(units[w].sync[i])) =>
                /\ units[w].pc \notin {"exists", "update", "insert"}
                /\ ~units[w].read
                /\ units[w].toUpdate = <<>> /\ units[w].toInsert = <<>>
       /\ \A u \in DOMAIN episodes' :
            (u \notin DOMAIN episodes \/ episodes'[u] # episodes[u]) =>
                \E w \in Workers : \E i \in DOMAIN units[w].sync :
                    units[w].sync[i].uuid = u /\ ~NoInteraction(units[w].sync[i])]_vars

\* a response with an interacted e1 and an e2 without interaction: the unit
\* has written e1 and e2 is not stored
C22_Witness ==
    \E w \in Workers :
        /\ units[w].pc = "increment"
        /\ Len(units[w].sync) = 2
        /\ \E i \in DOMAIN units[w].sync :
              units[w].sync[i].uuid = "e2" /\ NoInteraction(units[w].sync[i])
        /\ \A i \in DOMAIN units[w].sync :
              units[w].sync[i].uuid = "e2" => NoInteraction(units[w].sync[i])
        /\ "e1" \in BatchUuids(units[w].toInsert)
        /\ "e1" \in DOMAIN episodes
        /\ "e2" \notin DOMAIN episodes

\* the interacted records of a response, by position
InteractedAt(sync) == {i \in DOMAIN sync : ~NoInteraction(sync[i])}

\* C23: every interacted record is in the update batch iff its id is stored,
\* in the insert batch iff its id is not stored and the cache names it, and
\* in neither otherwise; the update batch is written before the insert batch
\* and an empty batch is not written.
C23_ClassifierPartitions ==
    [][\A w \in Workers :
        /\ ClassifiesUnit(w) =>
            LET sync == units[w].sync
                cache == units[w].cache
                stored(i) == sync[i].uuid \in DOMAIN episodes
                cached(i) == \E k \in DOMAIN cache : cache[k].uuid = sync[i].uuid
            IN  /\ Len(units'[w].toUpdate) =
                      Cardinality({i \in InteractedAt(sync) : stored(i)})
                /\ Len(units'[w].toInsert) =
                      Cardinality({i \in InteractedAt(sync) : ~stored(i) /\ cached(i)})
                /\ \A i \in InteractedAt(sync) :
                      /\ (sync[i].uuid \in BatchUuids(units'[w].toUpdate)) <=> stored(i)
                      /\ (sync[i].uuid \in BatchUuids(units'[w].toInsert))
                            <=> (~stored(i) /\ cached(i))
        /\ units'[w].pc = "update" => units'[w].toUpdate # <<>>
        /\ units'[w].pc = "insert" => units'[w].toInsert # <<>>
        /\ units[w].pc = "insert" => units'[w].pc # "update"
        /\ (units[w].pc = "update" /\ units'[w].pc # "update") =>
              units'[w].pc = (IF units[w].toInsert # <<>> THEN "insert" ELSE "increment")
        /\ (episodes' # episodes) => \E v \in Workers : units[v].pc \in {"update", "insert"}]_vars

\* a unit has updated the stored e1 and inserted the new e2
C23_Witness ==
    \E w \in Workers :
        /\ units[w].pc = "increment"
        /\ BatchUuids(units[w].toUpdate) = {"e1"}
        /\ BatchUuids(units[w].toInsert) = {"e2"}
        /\ "e2" \in DOMAIN episodes
        /\ episodes["e1"].playing_status = units[w].toUpdate[1].playing_status
        /\ episodes["e1"].played_up_to = units[w].toUpdate[1].played_up_to
        /\ episodes["e1"].playing_status # 2

\* C24: the update of stored episodes in stage 2 leaves every row's title,
\* podcast and played_at as they were, adds and removes no row, and leaves
\* the rows outside the update batch untouched; the rows of the batch take
\* the batch's playing_status, played_up_to, starred and is_deleted.
C24_UpdateKeepsMetadata ==
    [][\A w \in Workers : (units[w].pc = "update" /\ units'[w].pc # "update") =>
        /\ DOMAIN episodes' = DOMAIN episodes
        /\ \A u \in DOMAIN episodes :
              /\ episodes'[u].title = episodes[u].title
              /\ episodes'[u].podcast_uuid = episodes[u].podcast_uuid
              /\ episodes'[u].played_at = episodes[u].played_at
              /\ u \notin BatchUuids(units[w].toUpdate) => episodes'[u] = episodes[u]
              /\ u \in BatchUuids(units[w].toUpdate) =>
                    \E i \in DOMAIN units[w].toUpdate :
                        /\ units[w].toUpdate[i].uuid = u
                        /\ episodes'[u].playing_status = units[w].toUpdate[i].playing_status
                        /\ episodes'[u].played_up_to = units[w].toUpdate[i].played_up_to
                        /\ episodes'[u].starred = units[w].toUpdate[i].starred
                        /\ episodes'[u].is_deleted = units[w].toUpdate[i].is_deleted]_vars

\* the stored e1 was updated to status 3 while the cache names it t2: it
\* still has title t1, podcast p1 and played_at 1
C24_Witness ==
    \E w \in Workers :
        /\ units[w].pc \in {"insert", "increment"}
        /\ "e1" \in BatchUuids(units[w].toUpdate)
        /\ CacheHas(units[w].cache, "e1")
        /\ CacheGet(units[w].cache, "e1").title = "t2"
        /\ "e1" \in DOMAIN episodes
        /\ episodes["e1"].playing_status = 3
        /\ episodes["e1"].played_up_to = 2
        /\ episodes["e1"].title = "t1"
        /\ episodes["e1"].played_at = 1

\* the last interacted record of a response for a uuid
LastRecord(sync, u) ==
    sync[CHOOSE i \in InteractedAt(sync) :
            /\ sync[i].uuid = u
            /\ \A j \in InteractedAt(sync) : sync[j].uuid = u => j <= i]

\* C25: when a unit finishes, a new record the cache does not name is not
\* stored, every other interacted record of the response is stored with its
\* sync fields, and the finish raises completed by 1; the unit reaches its
\* finish whatever the cache holds.
C25_MissingMetadataDropped ==
    [][\A w \in Workers :
        /\ FiltersUnit(w) => units'[w].pc \in {"exists", "increment"}
        /\ ClassifiesUnit(w) => units'[w].pc \in {"update", "insert", "increment"}
        /\ (units[w].pc = "increment" /\ units'[w].pc # "increment") =>
            /\ progress'.completed = progress.completed + 1
            /\ \A i \in InteractedAt(units[w].sync) :
                  LET u == units[w].sync[i].uuid
                  IN  IF u \in BatchUuids(units[w].toUpdate) \/ CacheHas(units[w].cache, u)
                      THEN /\ u \in DOMAIN episodes
                           /\ episodes[u].playing_status = LastRecord(units[w].sync, u).playingStatus
                           /\ episodes[u].played_up_to = LastRecord(units[w].sync, u).playedUpTo
                           /\ episodes[u].starred = Bit(LastRecord(units[w].sync, u).starred)
                           /\ episodes[u].is_deleted = Bit(LastRecord(units[w].sync, u).isDeleted)
                      ELSE u \notin DOMAIN episodes]_vars

\* the response names the new e1 first, which the cache does not hold, then
\* the new e2, which it holds: e2 is stored, e1 is not, and the unit is at
\* its increment
C25_Witness ==
    \E w \in Workers :
        /\ units[w].pc = "increment"
        /\ Len(units[w].sync) = 2
        /\ units[w].sync[1].uuid = "e1" /\ ~NoInteraction(units[w].sync[1])
        /\ units[w].sync[2].uuid = "e2" /\ ~NoInteraction(units[w].sync[2])
        /\ ~CacheHas(units[w].cache, "e1")
        /\ units[w].toUpdate = <<>>
        /\ BatchUuids(units[w].toInsert) = {"e2"}
        /\ "e1" \notin DOMAIN episodes
        /\ "e2" \in DOMAIN episodes

\* C26: once a unit has written its batches, classifying the same podcast
\* again with the same sync and cache responses leaves the episodes table as
\* it is: the same ids, and every row's fields equal.
C26_ClassifierIdempotent ==
    \A w \in Workers :
        units[w].pc = "increment" =>
            \A upsert \in UpsertKinds :
                ProcessPodcastEpisodes(episodes, units[w].podcast, units[w].sync,
                                       units[w].cache, upsert) = episodes

\* the first classification inserted e2 and updated e1; a second one would
\* put both in its update batch
C26_Witness ==
    \E w \in Workers :
        /\ units[w].pc = "increment"
        /\ BatchUuids(units[w].toInsert) = {"e2"}
        /\ BatchUuids(units[w].toUpdate) = {"e1"}
        /\ LET again == ClassifiedUnit(episodes, units[w].podcast, units[w].sync, units[w].cache)
           IN  /\ BatchUuids(again.toUpdate) = {"e1", "e2"}
               /\ again.toInsert = <<>>

\* processPodcastEpisodes for podcast p against the account
AccountUnit(table, p, upsert) ==
    ProcessPodcastEpisodes(table, p, remote.sync[p], remote.cache[p], upsert)

\* every sync-podcast message is consumed and acknowledged
UnitsQuiet == (\A p \in PodcastIds : queue.podcast[p] = 0) /\ (\A w \in Workers : units[w].pc = "idle")

\* C28: a step of the unit for podcast P changes and creates only episode
\* rows of P, leaves the other consumer's unit, the bookmarks and every
\* podcast row but P's as they are, and touches the counter only at its
\* finish; when the units for p1 and p2 have all finished, however their
\* steps interleaved, the episodes table is the one that running p1 then p2,
\* or p2 then p1, one after the other gives.
C28_UnitsIndependent ==
    [][/\ \A w \in Workers : units'[w] # units[w] =>
            LET P == IF units[w].pc = "idle" THEN units'[w].podcast ELSE units[w].podcast
            IN  /\ \A u \in DOMAIN episodes' :
                      (u \notin DOMAIN episodes \/ episodes'[u] # episodes[u]) =>
                          /\ episodes'[u].podcast_uuid = P
                          /\ u \in DOMAIN episodes => episodes[u].podcast_uuid = P
                /\ DOMAIN episodes \subseteq DOMAIN episodes'
                /\ \A v \in Workers \ {w} : units'[v] = units[v]
                /\ bookmarks' = bookmarks
                /\ DOMAIN podcasts' = DOMAIN podcasts
                /\ \A q \in DOMAIN podcasts : q # P => podcasts'[q] = podcasts[q]
                /\ progress' # progress => units[w].pc = "increment"
       /\ UnitsQuiet' =>
            \A first \in UpsertKinds, second \in UpsertKinds :
                /\ episodes' = AccountUnit(AccountUnit(remote.before.episodes, "p1", first),
                                           "p2", second)
                /\ episodes' = AccountUnit(AccountUnit(remote.before.episodes, "p2", first),
                                           "p1", second)]_vars

\* the unit for p1 has updated the stored e1 while the unit for p2, started
\* before that write or after it, is about to insert e2
C28_Witness ==
    \E w, v \in Workers :
        /\ units[w].podcast = "p1" /\ units[w].pc = "increment"
        /\ BatchUuids(units[w].toUpdate) = {"e1"}
        /\ episodes["e1"].playing_status = 3
        /\ units[v].podcast = "p2" /\ units[v].pc = "insert"
        /\ BatchUuids(units[v].toInsert) = {"e2"}
        /\ "e2" \notin DOMAIN episodes

\* a consumer finishes the reset of stage 1 in this step
ResetsProgress(w) == units[w].pc = "reset" /\ units'[w].pc = "enqueue"

\* a stage-2 unit's increment of the counter returns in this step
FinishesUnit(w) == units[w].pc = "increment" /\ units'[w].pc # "increment"

\* C27 as stated: no step of the pipeline decreases completed.
C27_NeverDecreases == [][progress'.completed >= progress.completed]_vars

\* C27: every finish of a stage-2 unit raises completed by exactly 1 and
\* leaves total alone; the only step that lowers completed is the reset of
\* stage 1, which sets it to 0 and total to the length of the run's list; no
\* other step changes the counter.
C27_OnlyResetLowersCounter ==
    [][/\ \A w \in Workers : FinishesUnit(w) =>
            /\ progress'.completed = progress.completed + 1
            /\ progress'.total = progress.total
       /\ \A w \in Workers : ResetsProgress(w) =>
            progress' = [completed |-> 0, total |-> Len(units[w].list)]
       /\ progress' # progress => \E w \in Workers : FinishesUnit(w) \/ ResetsProgress(w)
       /\ progress'.completed < progress.completed => \E w \in Workers : ResetsProgress(w)]_vars

\* the second run's stage 1 has reset the counter after units of the first
\* run had raised it to its total
C27_Witness ==
    /\ triggers = 2
    /\ historySent >= 1
    /\ progress.completed = 0
    /\ \E w \in Workers : units[w].pc = "enqueue"

\* every message of both runs is consumed and acknowledged
OverlapQuiet ==
    /\ triggers = 2
    /\ queue.podcasts = 0 /\ queue.history = 0
    /\ \A p \in PodcastIds : queue.podcast[p] = 0
    /\ \A w \in Workers : units[w].pc = "idle"

\* a table with the updated_at of its rows left out
WithoutUpdatedAt(table) == [u \in DOMAIN table |-> [table[u] EXCEPT !.updated_at = NULL]]

C30_ClientErrorsCarryStatus ==
    (call.pc = "settled" /\ ~call.response[1].ok) =>
        /\ call.outcome[1].threw
        /\ call.outcome[1].value = <<>>
        /\ call.fetches = 1
        /\ call.outcome[1].error[1].status = <<call.response[1].status>>
        /\ call.outcome[1].error[1].resource = call.resource

\* C31: a request to a protected route whose session cookie is absent or is
\* not the token derived from PASS is answered with a redirect to /, reads
\* nothing from the store and sends no message; a login whose password is
\* absent or is not PASS is answered 401 without a session cookie.
C31_UnauthenticatedIsRedirected ==
    [][LET req == http'.request[1]
           res == http'.response[1]
       IN  /\ (req.route \in ProtectedRoutes
                  /\ req.cookie # <<generateToken(http.env.PASS)>>) =>
                /\ res.status = 302 /\ res.location = <<"/">>
                /\ ~http'.reads /\ ~http'.sent
                /\ queue' = queue /\ triggers' = triggers
           /\ (req.route = "/login" /\ req.password # http.env.PASS) =>
                /\ res.status = 401
                /\ res.setCookie = <<>>
                /\ queue' = queue
           /\ http'.env = http.env]_vars

\* /backup was requested with the password itself in the session cookie: the
\* answer is the redirect to / and nothing was queued
C31_Witness ==
    /\ http.request # <<>>
    /\ http.request[1].route = "/backup"
    /\ http.env.PASS # <<>> /\ http.env.EMAIL # <<>>
    /\ http.request[1].cookie = <<[kind |-> "text", of |-> http.env.PASS[1]]>>
    /\ http.response[1].status = 302
    /\ http.response[1].location = <<"/">>
    /\ queue.podcasts = 0

\* C34: every request of getListenHistory is for a year from 2010 to the
\* current year, a request is for the year of the one before it or for the
\* year below, no more than two requests per year of the range are issued,
\* and the call ends, returning or throwing.
C34_ScanBoundedAndTerminates ==
    /\ [](/\ \A i \in DOMAIN scan.requests :
                /\ scan.requests[i].year \in FirstYear..CurrentYear
                /\ i > 1 => scan.requests[i].year \in
                               {scan.requests[i - 1].year, scan.requests[i - 1].year - 1}
                /\ Cardinality({j \in DOMAIN scan.requests :
                                    scan.requests[j].year = scan.requests[i].year}) <= 2
           /\ Len(scan.requests) <= 2 * (CurrentYear - FirstYear + 1))
    /\ <>(scan.pc \in {"done", "failed"})

\* no year reported a zero count: the call returned after the requests for
\* 2010, two requests for every year of the range
C34_Witness ==
    /\ scan.pc = "done"
    /\ scan.zeroAt = <<>>
    /\ Len(scan.requests) = 2 * (CurrentYear - FirstYear + 1)
    /\ scan.requests[Len(scan.requests)].year = FirstYear

\* C35: the requests alternate count query, full query, year by year from
\* the current year down; a full query follows a count response whose count
\* is above 0; a call that ends on a year with no count after k years with
\* one has made 2k+1 requests.
C35_RequestProtocol ==
    /\ \A i \in DOMAIN scan.requests :
          /\ scan.requests[i].count = (i % 2 = 1)
          /\ scan.requests[i].year = CurrentYear - ((i - 1) \div 2)
    /\ scan.pc = "full" =>
          /\ scan.requests[Len(scan.requests)].count
          /\ scan.response[1].count # <<>>
          /\ scan.response[1].count[1] > 0
    /\ (scan.pc = "done" /\ scan.zeroAt # <<>>) =>
          Len(scan.requests) = 2 * (CurrentYear - scan.zeroAt[1]) + 1

\* the current year had entries and the year before it reported none: three
\* requests, count, full, count
C35_Witness ==
    /\ scan.pc = "done"
    /\ scan.zeroAt = <<CurrentYear - 1>>
    /\ Len(scan.requests) = 3
    /\ scan.requests[2] = [year |-> CurrentYear, count |-> FALSE]
    /\ scan.requests[3] = [year |-> CurrentYear - 1, count |-> TRUE]

\* the positions of a call in the log of syncPodcasts
Calls(name) == {i \in DOMAIN sends.log : sends.log[i] = name}

\* every call named first was made before every call named after
CalledBefore(first, after) == \A i \in Calls(first), j \in Calls(after) : i < j

\* C32: in syncPodcasts both fetches are over before any store write, both
\* reconciliations before the counter is reset to the number of podcasts, and
\* the reset before the first sync-podcast message is enqueued; no unit of
\* the run starts or increments the counter before the run's reset.
C32_Stage1Ordered ==
    /\ \A f \in {"getPodcastList", "getBookmarks"}, w \in {"savePodcasts", "saveBookmarks"} :
          /\ CalledBefore(f, w)
          /\ Calls(w) # {} => Calls(f) # {}
    /\ (sends.pc # "idle" /\ (podcasts # sends.before[1].podcasts
                               \/ bookmarks # sends.before[1].bookmarks)) =>
          Len(sends.responses) = 3
    /\ \A w \in {"savePodcasts", "saveBookmarks"} :
          /\ CalledBefore(w, "resetBackupProgress")
          /\ Calls("resetBackupProgress") # {} => Calls(w) # {}
    /\ sends.total # <<>> =>
          /\ sends.saved = {"podcasts", "bookmarks"}
          /\ sends.total[1] = Len(sends.podcastList[1])
    /\ (sends.pc \in {"reset", "send"} /\ sends.total # <<>>) =>
          progress.total = Len(sends.podcastList[1])
    /\ CalledBefore("resetBackupProgress", "sendBatch")
    /\ ((\E p \in PodcastIds : queue.podcast[p] > 0)
          \/ (\E w \in Workers : units[w].pc # "idle")
          \/ classified # {}
          \/ sends.batches # <<>>) =>
          /\ sends.total # <<>>
          /\ Calls("resetBackupProgress") # {}

\* syncPodcasts has returned for a list of two podcasts, and a unit of the run
\* has incremented the counter the run had reset
C32_Witness ==
    /\ sends.pc = "done"
    /\ Len(sends.podcastList[1]) = 2
    /\ sends.before[1].progress.total = 2
    /\ Len(sends.batches) = 1
    /\ progress = [completed |-> 1, total |-> 2]
    /\ classified # {}

\* C36: when login, the podcast-list fetch or the bookmark fetch gets an
\* error response, syncPodcasts fails with the store as it was: no podcast or
\* bookmark row upserted or soft-deleted, the counter not reset, no
\* sync-podcast message enqueued.
C36_Stage1FetchFailureLeavesStore ==
    (\E i \in DOMAIN sends.responses : ~sends.responses[i].ok) =>
        /\ sends.pc = "failed"
        /\ podcasts = sends.before[1].podcasts
        /\ bookmarks = sends.before[1].bookmarks
        /\ progress = sends.before[1].progress
        /\ queue.podcast = sends.before[1].queue
        /\ sends.saved = {}
        /\ sends.total = <<>>
        /\ sends.batches = <<>>
        /\ Calls("savePodcasts") \cup Calls("saveBookmarks")
             \cup Calls("resetBackupProgress") \cup Calls("sendBatch") = {}
        /\ \A w \in Workers : units[w].pc = "idle"

\* the podcast list arrived with one podcast, the bookmark fetch failed, and
\* the store of the earlier backup is as it was
C36_Witness ==
    /\ sends.pc = "failed"
    /\ Len(sends.responses) = 3
    /\ sends.responses[2].ok
    /\ Len(sends.responses[2].body) = 1
    /\ ~sends.responses[3].ok
    /\ podcasts # EmptyTable
    /\ \A u \in DOMAIN podcasts : podcasts[u].deleted_at = NULL

\* the messages of the batches, in the order sent
RECURSIVE Concat(_)
Concat(batches) == IF batches = <<>> THEN <<>> ELSE Head(batches) \o Concat(Tail(batches))

\* C33: syncPodcasts enqueues one sync-podcast message per podcast of the
\* remote list, none twice and none left out, in consecutive batches of at
\* most 100 messages, and the counter's total is the number of messages
\* enqueued. A call whose sendBatch rejects has enqueued the whole batches
\* before it, a proper prefix of the list, each message once.
C33_OneMessagePerPodcast ==
    /\ \A b \in DOMAIN sends.batches :
          /\ Len(sends.batches[b]) \in 1..BatchLimit
          /\ b < Len(sends.batches) => Len(sends.batches[b]) = BatchLimit
    /\ sends.batches # <<>> =>
          LET sent == Concat(sends.batches)
          IN  /\ Len(sent) <= Len(sends.podcastList[1])
              /\ \A k \in DOMAIN sent : sent[k].podcastUuid = sends.podcastList[1][k].uuid
    /\ sends.pc = "done" =>
          LET list == sends.podcastList[1]
              sent == Concat(sends.batches)
          IN  /\ Len(sent) = Len(list)
              /\ Len(sends.batches) = (Len(list) + BatchLimit - 1) \div BatchLimit
              /\ \A p \in DOMAIN queue.podcast :
                    queue.podcast[p] = IF p \in ActiveUuids(list) THEN 1 ELSE 0
              /\ progress.total = Len(sent)
              /\ sends.total = <<Len(sent)>>
    /\ sends.threw = "send" =>
          LET list == sends.podcastList[1]
              sent == Concat(sends.batches)
          IN  /\ sends.pc = "failed"
              /\ Len(sent) = BatchLimit * Len(sends.batches)
              /\ Len(sent) < Len(list)
              /\ \A p \in DOMAIN queue.podcast :
                    queue.podcast[p] = IF p \in ActiveUuids(SubSeq(list, 1, Len(sent)))
                                       THEN 1 ELSE 0
              /\ progress.total = Len(list)

\* syncPodcasts has returned for a list of more than 200 podcasts: three
\* batches, the last one short
C33_Witness ==
    /\ sends.pc = "done"
    /\ Len(sends.podcastList[1]) > 2 * BatchLimit
    /\ Len(sends.batches) = 3
    /\ Len(sends.batches[3]) = Len(sends.podcastList[1]) - 2 * BatchLimit
    /\ progress.total = Len(sends.podcastList[1])

\* the calls of syncPodcast whose throw fails the unit before its increment:
\* the fetches and the store calls of processPodcastEpisodes
BeforeIncrement == {"fetch", "count", "exists", "update", "insert"}

\* C37, as stated: a stage-2 unit whose sync-data fetch, cache fetch or store
\* call throws does not increment the counter and enqueues no sync-history
\* message in that delivery; when either fetch failed, the delivery has
\* written no episode row. Violated: incrementBackupProgress is a store call
\* too, and when it rejects after the store applied it the failed delivery
\* has raised the counter.
C37_FailedUnitLeavesCounter ==
    [][\A w \in Workers :
          (units[w].pc # "failed" /\ units'[w].pc = "failed"
              /\ units'[w].threw \in BeforeIncrement \cup {"increment"}) =>
             /\ progress' = progress
             /\ historySent' = historySent
             /\ queue'.history = queue.history
             /\ units'[w].threw = "fetch" => episodes' = episodes]_vars

\* C37, amended: a stage-2 unit that fails inside processPodcastEpisodes (a
\* fetch or one of its store calls throws) does not increment the counter;
\* a unit that fails on incrementBackupProgress leaves the counter as it was
\* or raised by one; no failing delivery enqueues a sync-history message;
\* when either fetch failed, the delivery has written no row.
C37_FailureBeforeIncrementLeavesCounter ==
    /\ [](\A w \in Workers :
             (\E i \in DOMAIN units[w].oks : ~units[w].oks[i]) =>
                 (units[w].pc = "failed" /\ units[w].threw = "fetch"))
    /\ [][\A w \in Workers :
             /\ (units[w].pc # "failed" /\ units'[w].pc = "failed"
                    /\ units'[w].threw \in BeforeIncrement) =>
                   /\ units[w].pc \in {"idle", "count", "exists", "update", "insert"}
                   /\ progress' = progress
                   /\ classified' = classified
                   /\ historySent' = historySent
                   /\ queue'.history = queue.history
                   /\ units'[w].threw = "fetch" =>
                         (units[w].pc = "idle" /\ episodes' = episodes /\ podcasts' = podcasts)
                   /\ units'[w].threw = "exists" =>
                         (episodes' = episodes /\ podcasts' = podcasts)
             /\ (units[w].pc # "failed" /\ units'[w].pc = "failed"
                    /\ units'[w].threw \in {"increment", "send"}) =>
                   /\ units[w].pc = units'[w].threw
                   /\ progress' \in {progress, incrementBackupProgress(progress)}
                   /\ units[w].pc = "send" => progress' = progress
                   /\ historySent' = historySent
                   /\ queue'.history = queue.history
                   /\ episodes' = episodes /\ podcasts' = podcasts
             /\ units[w].pc = "failed" =>
                   /\ units'[w] \in {units[w], Idle}
                   /\ units'[w] = Idle =>
                         (progress' = progress /\ historySent' = historySent
                            /\ episodes' = episodes)
             /\ progress' # progress => \E v \in Workers : units[v].pc = "increment"
             /\ historySent' # historySent =>
                   \E v \in Workers : units[v].pc = "send" /\ units'[v] = Idle]_vars

\* one unit failed on its cache fetch with the counter at 0 of 2 and nothing
\* written; the other failed on its existence check after its count write
C37_Witness ==
    /\ units["w1"].pc = "failed"
    /\ units["w1"].oks = <<TRUE, FALSE>>
    /\ units["w2"].pc = "failed"
    /\ units["w2"].threw = "exists"
    /\ podcasts # remote.before.podcasts
    /\ episodes = remote.before.episodes
    /\ progress = [completed |-> 0, total |-> 2]
    /\ historySent = 0

\* a unit failed on incrementBackupProgress with the increment applied: the
\* failed delivery has raised the counter
C37_IncrementAppliedThenRejected ==
    \E w \in Workers :
        /\ units[w].pc = "failed"
        /\ units[w].threw = "increment"
        /\ progress.completed = 1
        /\ historySent = 0

\* the handler of the message at batch.next ran to its end in this step
HandlerRan ==
    LET body == batch.messages[batch.next]
    IN  IF body.type = "sync-podcasts"
        THEN units["w1"].pc = "enqueue" /\ units'["w1"] = Idle
                /\ progress = resetBackupProgress(Len(remote.podcasts))
        ELSE IF body.type = "sync-podcast"
        THEN /\ units["w1"].pc \in {"increment", "send"}
             /\ units["w1"].podcast = body.podcastUuid
             /\ units'["w1"] = Idle
        ELSE historyRuns' = historyRuns + 1

\* C38: the consumer handles the messages of a batch one after another in
\* order and acknowledges a message only after its handler returned; when a
\* handler throws, at its first request or at any later awaited call, that
\* message and the later ones of the batch stay unacknowledged and wait in
\* the queue, the earlier ones stay acknowledged, and no later message of
\* the batch is handled.
C38_AckAfterHandler ==
    /\ [](batch.next > 0 =>
             /\ batch.acked = 1..(batch.next - 1)
             /\ batch.threw => batch.next \in DOMAIN batch.messages)
    /\ [][/\ (batch.next > 0 /\ batch'.acked # batch.acked /\ batch'.next > 0) =>
                /\ batch'.acked = batch.acked \cup {batch.next}
                /\ batch'.next = batch.next + 1
                /\ ~batch'.threw
                /\ HandlerRan
          /\ (batch.next > 0 /\ batch'.threw /\ ~batch.threw) =>
                /\ batch'.acked = batch.acked
                /\ batch'.next = batch.next
                /\ \A i \in DOMAIN batch.messages \ batch.acked :
                      Waiting(queue', batch.messages[i])
                          >= Occurrences(batch.messages[i],
                                         SubSeq(batch.messages, batch.next,
                                                Len(batch.messages)))
          /\ (batch.next \in DOMAIN batch.messages /\ units'["w1"] # units["w1"]
                /\ units["w1"].pc = "idle") =>
                LET body == batch.messages[batch.next]
                IN  /\ ~batch.threw
                    /\ Waiting(queue', body) = Waiting(queue, body) - 1
                    /\ body.type = "sync-podcast" =>
                          units'["w1"].podcast = body.podcastUuid
                    /\ (body.type = "sync-podcasts") <=> (units'["w1"].pc = "save")
          /\ batch.threw =>
                /\ batch' \in {batch, NoBatch}
                /\ units'["w1"].pc \in {"idle", "failed"}
                /\ <<episodes, progress, historyRuns, historySent>>'
                     = <<episodes, progress, historyRuns, historySent>>
                /\ \A i \in DOMAIN batch.messages \ batch.acked :
                      Waiting(queue', batch.messages[i])
                          >= Occurrences(batch.messages[i],
                                         SubSeq(batch.messages, batch.next,
                                                Len(batch.messages)))]_vars

\* the handler of the second of three messages threw at a store call after
\* it had written: the first message is acknowledged, the second and the
\* third are not
C38_Witness ==
    /\ Len(batch.messages) = 3
    /\ batch.threw
    /\ batch.next = 2
    /\ batch.acked = {1}
    /\ DOMAIN batch.messages \ batch.acked = {2, 3}
    /\ units["w1"].pc = "failed"
    /\ units["w1"].threw \in {"exists", "update", "insert", "increment"}
    /\ podcasts[units["w1"].podcast].episode_count # NULL

\* syncPodcasts threw on a rejected statement of savePodcasts and the
\* reconciliation of the bookmarks, left running, wrote afterwards
C38_SiblingWritesAfterThrow ==
    /\ batch.threw
    /\ units["w1"].pc = "failed"
    /\ units["w1"].save.podcasts = "rejected"
    /\ units["w1"].save.bookmarks = "done"
    /\ bookmarks # remote.before.bookmarks

\* C39: every syncPodcasts call that returns is eventually followed by a
\* run of syncHistory, also when the remote podcast list is empty.
C39_Stage1LeadsToStage3 == (sends.pc = "done") ~> (historyRuns > 0)

\* C40: when savePodcasts calls with different remote sets overlap, their
\* statements interleaved in any order, then once all have returned every
\* row's deleted_at is null iff its uuid is in the set of the call that
\* returned last.
C40_LastPassWinsUnderOverlap ==
    (lastRemote.podcasts # <<>> /\ ~InPass("podcasts")) =>
        \A u \in DOMAIN podcasts :
            (podcasts[u].deleted_at = NULL) <=> (u \in lastRemote.podcasts[1])

====
